---- MODULE Spec2Model ----
(***************************************************************************)
(* The Teams transcript processor of macos_capture_transcripts:            *)
(* process_teams_transcript.py scans a directory of timestamped snapshot   *)
(* files, orders them, and stitches the (speaker, text) parts of each      *)
(* snapshot onto one accumulated transcript.                                *)
(*                                                                         *)
(* Strings the program inspects character by character (file names,        *)
(* directory paths) are sequences of one-character strings.                *)
(***************************************************************************)
EXTENDS Integers, Sequences, FiniteSets, TLC

VARIABLES
    input_is_dir,          \* os.path.isdir(input_dir_path)
    disk,                  \* the files under the input directory: [root, file] -> content
    pc,                    \* position in process_teams_directory
    json_files,            \* list of (timestamp, full_path), sorted after the scan
    i,                     \* number of entries of json_files the loop has consumed
    all_transcript_parts,  \* the accumulated transcript
    current_parts,         \* parts extracted from the file read last (<<>> when none)
    outcome,               \* what the last loop iteration did
    origin,                \* for each transcript element, the index in json_files of its file
    exit_code,             \* -1 while running, else the process's exit status
    argv,                  \* sys.argv: the script's name, then its arguments
    data,                  \* the value json.load returned
    formatted_output,      \* what the formatter returned
    row,                   \* number of table rows a parser's loop has consumed
    transcript_parts,      \* the (speaker, timestamp, dialogue) triples a parser emitted
    current_speaker,       \* parse_zoom_json: the speaker of the open block
    current_timestamp,     \* parse_zoom_json: the timestamp of the open block
    current_text_buffer,   \* parse_zoom_json: the text fragments of the open block
    config,                \* run_periodic_export: pid and what the two presets ask for
    running,               \* the pids os.kill(pid, 0) reaches
    screen,                \* what the accessibility calls of the current cycle find
    now,                   \* datetime.now(), to the second
    cycle,                 \* number of loop cycles completed
    exports                \* the files export_to_json has written, oldest first

teams_vars == <<input_is_dir, disk, json_files, i, all_transcript_parts,
                current_parts, origin>>
zoom_vars == <<current_speaker, current_timestamp, current_text_buffer>>
parser_vars == <<argv, data, row, transcript_parts, current_speaker,
                 current_timestamp, current_text_buffer>>

export_vars == <<config, running, screen, now, cycle, exports>>

vars == <<input_is_dir, disk, pc, json_files, i, all_transcript_parts,
          current_parts, outcome, origin, exit_code, argv, data, formatted_output,
          row, transcript_parts, current_speaker, current_timestamp,
          current_text_buffer, config, running, screen, now, cycle, exports>>

-----------------------------------------------------------------------------
(* Configuration *)

OVERLAP_LOOKBACK_PREVIOUS == 30
MIN_OVERLAP_LENGTH == 3

(* Bounds of the model *)
MaxFiles == 3          \* files in a general input directory
MaxSnapLen == 5        \* utterances per snapshot in a two-snapshot directory
MaxLead == 3           \* utterances before the padding of a long first snapshot
MaxPrefix == 1         \* utterances before the shared run in a scenario's snapshot 1
MaxNew == 3            \* utterances after the shared run in a scenario's snapshot 2
MaxGap == 3            \* utterances of a scenario's snapshot 3
MaxBranches == 2       \* subtrees under the Live Captions group of a snapshot tree
MaxTextLen == 4        \* characters of a caption text
MaxLabelLen == 5       \* characters of a speaker label
MaxFormatLen == 4      \* utterances of a transcript handed to the formatter
MaxRows == 3           \* rows of a Zoom or Webex transcript table
MaxCycles == 2         \* cycles of the periodic export loop
MaxWindows == 2        \* windows that match the title in one cycle

-----------------------------------------------------------------------------
(* Characters and strings *)

Max(x, y) == IF x >= y THEN x ELSE y
Min(x, y) == IF x <= y THEN x ELSE y

Digits == {"0", "1", "2", "3", "4", "5", "6", "7", "8", "9"}

\* int() of one decimal digit
DigitVal(c) ==
    CASE c = "0" -> 0 [] c = "1" -> 1 [] c = "2" -> 2 [] c = "3" -> 3
      [] c = "4" -> 4 [] c = "5" -> 5 [] c = "6" -> 6 [] c = "7" -> 7
      [] c = "8" -> 8 [] c = "9" -> 9

\* ord() of the characters that occur in the modelled paths
Ord(c) ==
    CASE c = "-" -> 45 [] c = "." -> 46 [] c = "/" -> 47
      [] c \in Digits -> 48 + DigitVal(c)
      [] c = "J" -> 74 [] c = "N" -> 78 [] c = "O" -> 79 [] c = "S" -> 83
      [] c = "_" -> 95
      [] c = "a" -> 97 [] c = "b" -> 98 [] c = "d" -> 100 [] c = "e" -> 101
      [] c = "j" -> 106 [] c = "n" -> 110 [] c = "o" -> 111 [] c = "s" -> 115
      [] c = "t" -> 116 [] c = "x" -> 120 [] c = "z" -> 122

\* str.lower() of one character
LowerChar(c) ==
    CASE c = "J" -> "j" [] c = "N" -> "n" [] c = "O" -> "o" [] c = "S" -> "s"
      [] OTHER -> c

Lower(s) == [k \in 1..Len(s) |-> LowerChar(s[k])]

EndsWith(s, suffix) ==
    /\ Len(s) >= Len(suffix)
    /\ SubSeq(s, Len(s) - Len(suffix) + 1, Len(s)) = suffix

\* Python's < on str: by code point, a proper prefix sorts first
RECURSIVE StrLess(_, _)
StrLess(s, t) ==
    IF t = <<>> THEN FALSE
    ELSE IF s = <<>> THEN TRUE
    ELSE IF Ord(Head(s)) # Ord(Head(t)) THEN Ord(Head(s)) < Ord(Head(t))
    ELSE StrLess(Tail(s), Tail(t))

\* os.path.join(root, file) for a root without a trailing separator
PathJoin(root, file) == root \o <<"/">> \o file

-----------------------------------------------------------------------------
(* Timestamps *)

\* None, as a value TLC can compare with a datetime: year 0 is below datetime.MINYEAR
None == [year |-> 0, month |-> 0, day |-> 0, hour |-> 0, minute |-> 0, second |-> 0]

IsLeap(y) == (y % 4 = 0 /\ y % 100 # 0) \/ y % 400 = 0

DaysInMonth(y, m) ==
    IF m = 2 THEN (IF IsLeap(y) THEN 29 ELSE 28)
    ELSE IF m \in {4, 6, 9, 11} THEN 30 ELSE 31

\* the pattern \d{4}-\d{2}-\d{2}-\d{2}-\d{2}-\d{2} at position p (1-based) of s
StampLen == 19
MatchAt(s, p) ==
    /\ p + StampLen - 1 <= Len(s)
    /\ \A k \in 0..(StampLen - 1) :
          IF k \in {4, 7, 10, 13, 16} THEN s[p + k] = "-"
          ELSE s[p + k] \in Digits

Num2(s, p) == 10 * DigitVal(s[p]) + DigitVal(s[p + 1])
Num4(s, p) == 100 * Num2(s, p) + Num2(s, p + 2)

\* datetime.strptime(ts_str, "%Y-%m-%d-%H-%M-%S"): None stands for ValueError
Strptime(s, p) ==
    LET dt == [year |-> Num4(s, p), month |-> Num2(s, p + 5), day |-> Num2(s, p + 8),
               hour |-> Num2(s, p + 11), minute |-> Num2(s, p + 14),
               second |-> Num2(s, p + 17)]
    IN  IF /\ dt.year >= 1
           /\ dt.month \in 1..12
           /\ dt.day >= 1 /\ dt.day <= DaysInMonth(dt.year, dt.month)
           /\ dt.hour <= 23 /\ dt.minute <= 59 /\ dt.second <= 59
        THEN dt ELSE None

\* a parser that gives a name without a parsable timestamp datetime.min instead of None
get_timestamp_or_min(filename) ==
    LET starts == {p \in 1..Len(filename) : MatchAt(filename, p)}
        parsed == IF starts = {} THEN None
                  ELSE Strptime(filename, CHOOSE p \in starts : \A q \in starts : p <= q)
    IN  IF parsed = None
        THEN [year |-> 1, month |-> 1, day |-> 1, hour |-> 0, minute |-> 0, second |-> 0]
        ELSE parsed

get_timestamp_from_filename(filename) ==
    LET starts == {p \in 1..Len(filename) : MatchAt(filename, p)}
    IN  IF starts = {} THEN None
        ELSE Strptime(filename, CHOOSE p \in starts : \A q \in starts : p <= q)

\* datetime as the tuple Python compares
DtKey(dt) == <<dt.year, dt.month, dt.day, dt.hour, dt.minute, dt.second>>

RECURSIVE TupleLess(_, _)
TupleLess(s, t) ==
    IF s = <<>> \/ t = <<>> THEN FALSE
    ELSE IF Head(s) # Head(t) THEN Head(s) < Head(t)
    ELSE TupleLess(Tail(s), Tail(t))

DtLess(d1, d2) == TupleLess(DtKey(d1), DtKey(d2))

\* an order on the entries by full path alone
EntryLessByPath(e1, e2) == StrLess(e1[2], e2[2])

\* an order on the entries that breaks a timestamp tie by the later path first
EntryLessTieReversed(e1, e2) ==
    IF e1[1] # e2[1] THEN DtLess(e1[1], e2[1]) ELSE StrLess(e2[2], e1[2])

\* Python's < on the (timestamp, full_path) tuples of json_files
EntryLess(e1, e2) ==
    IF e1[1] # e2[1] THEN DtLess(e1[1], e2[1]) ELSE StrLess(e1[2], e2[2])

\* list.sort() on a list of distinct entries
RECURSIVE SortEntries(_)
SortEntries(S) ==
    IF S = {} THEN <<>>
    ELSE LET m == CHOOSE e \in S : \A o \in S \ {e} : EntryLess(e, o)
         IN  <<m>> \o SortEntries(S \ {m})

-----------------------------------------------------------------------------
(* Overlap detection *)

\* j2len of SequenceMatcher.find_longest_match: the length of the common block
\* that ends at a[p] and b[q] (1-based), 0 when a[p] # b[q]
RECURSIVE BlockEndingAt(_, _, _, _)
BlockEndingAt(a, b, p, q) ==
    IF p = 0 \/ q = 0 THEN 0
    ELSE IF a[p] # b[q] THEN 0
    ELSE 1 + BlockEndingAt(a, b, p - 1, q - 1)

\* a scan that keeps, among the longest blocks ending earliest in a, the one
\* that lies last in b
ScanBlocksLastInB(a, b) ==
    LET ends == [p \in 1..Len(a) |-> [q \in 1..Len(b) |-> BlockEndingAt(a, b, p, q)]]
        longest == CHOOSE k \in 0..Len(b) :
                      /\ \E p \in 1..Len(a) : \E q \in 1..Len(b) : ends[p][q] = k
                      /\ \A p \in 1..Len(a) : \A q \in 1..Len(b) : ends[p][q] <= k
        p1 == CHOOSE p \in 1..Len(a) :
                 /\ \E q \in 1..Len(b) : ends[p][q] = longest
                 /\ \A o \in 1..(p - 1) : \A q \in 1..Len(b) : ends[o][q] < longest
        q1 == CHOOSE q \in 1..Len(b) :
                 /\ ends[p1][q] = longest
                 /\ \A o \in (q + 1)..Len(b) : ends[p1][o] < longest
    IN  IF longest = 0 THEN [a |-> 0, b |-> 0, size |-> 0]
        ELSE [a |-> p1 - longest, b |-> q1 - longest, size |-> longest]

\* the scan of find_longest_match over a[0:len(a)] and b[0:len(b)] without junk:
\* p walks a, q walks the positions of a[p] in b in increasing order, and the best
\* block is replaced only by a strictly longer one; so the result is the first
\* (p, q) in that order at which the longest block ends.
ScanBlocks(a, b) ==
    LET ends == [p \in 1..Len(a) |-> [q \in 1..Len(b) |-> BlockEndingAt(a, b, p, q)]]
        longest == CHOOSE k \in 0..Len(b) :
                      /\ \E p \in 1..Len(a) : \E q \in 1..Len(b) : ends[p][q] = k
                      /\ \A p \in 1..Len(a) : \A q \in 1..Len(b) : ends[p][q] <= k
        p1 == CHOOSE p \in 1..Len(a) :
                 /\ \E q \in 1..Len(b) : ends[p][q] = longest
                 /\ \A o \in 1..(p - 1) : \A q \in 1..Len(b) : ends[o][q] < longest
        q1 == CHOOSE q \in 1..Len(b) :
                 /\ ends[p1][q] = longest
                 /\ \A o \in 1..(q - 1) : ends[p1][o] < longest
    IN  IF longest = 0 THEN [a |-> 0, b |-> 0, size |-> 0]
        ELSE [a |-> p1 - longest, b |-> q1 - longest, size |-> longest]

\* Match(a, b, size) with 0-based a and b, as difflib returns it
find_longest_match(a, b) ==
    IF a = <<>> \/ b = <<>> THEN [a |-> 0, b |-> 0, size |-> 0]
    ELSE ScanBlocks(a, b)

\* a slice that takes the whole transcript, whatever the lookback
WholeTranscript(previous_parts, lookback_prev) == previous_parts

\* previous_parts[max(0, len_prev - lookback_prev):]
PrevSlice(previous_parts, lookback_prev) ==
    SubSeq(previous_parts,
           Max(0, Len(previous_parts) - lookback_prev) + 1,
           Len(previous_parts))

\* an overlap search that returns where the matched block starts, not where it ends
overlap_index_at_block_start(previous_parts, current, lookback_prev, min_len) ==
    IF previous_parts = <<>> \/ current = <<>> \/ min_len <= 0 THEN 0
    ELSE LET prev_slice == PrevSlice(previous_parts, lookback_prev)
             match == find_longest_match(prev_slice, current)
         IN  IF match.size >= min_len
             THEN Min(match.b, Len(current))
             ELSE 0

\* an overlap search that accepts a block one shorter than min_len
overlap_index_short_block(previous_parts, current, lookback_prev, min_len) ==
    IF previous_parts = <<>> \/ current = <<>> \/ min_len <= 0 THEN 0
    ELSE LET prev_slice == PrevSlice(previous_parts, lookback_prev)
             match == find_longest_match(prev_slice, current)
         IN  IF match.size >= min_len - 1
             THEN Min(match.b + match.size, Len(current))
             ELSE 0

find_best_overlap_index(previous_parts, current, lookback_prev, min_len) ==
    IF previous_parts = <<>> \/ current = <<>> \/ min_len <= 0 THEN 0
    ELSE LET prev_slice == PrevSlice(previous_parts, lookback_prev)
             match == find_longest_match(prev_slice, current)
         IN  IF match.size >= min_len
             THEN Min(match.b + match.size, Len(current))
             ELSE 0

\* current_parts[new_content_start_idx:]
SliceFrom(s, idx) == SubSeq(s, idx + 1, Len(s))

\* a merge that assigns the new parts instead of extending the list
Replace(transcript, new_parts) == new_parts

\* all_transcript_parts.extend(new_parts)
Extend(transcript, new_parts) == transcript \o new_parts

-----------------------------------------------------------------------------
(* Snapshot files *)

\* (speaker, text) tuples as the extractor emits them
U1 == <<"A", "hi">>
U2 == <<"B", "yo">>
U3 == <<"C", "ok">>
Utterances == {U1, U2}

\* all sequences over S with lo..hi elements
SeqsOf(S, lo, hi) == UNION {[1..n -> S] : n \in lo..hi}

\* What reading a file gives: json.load raising JSONDecodeError, open or the
\* extraction raising another Exception, or the list of parts that
\* find_transcript_parts_teams_robust returns (empty on a structural mismatch).
DecodeError == [kind |-> "decode_error", parts |-> <<>>]
ReadError == [kind |-> "read_error", parts |-> <<>>]
Parts(s) == [kind |-> "parts", parts |-> s]

ErrorContents == {DecodeError, ReadError}
SmallContents == ErrorContents \cup {Parts(<<>>), Parts(<<U1>>)}

\* datetime.strftime("%Y-%m-%d-%H-%M-%S") of the fields, zero padded
DigitChar(n) ==
    CASE n = 0 -> "0" [] n = 1 -> "1" [] n = 2 -> "2" [] n = 3 -> "3"
      [] n = 4 -> "4" [] n = 5 -> "5" [] n = 6 -> "6" [] n = 7 -> "7"
      [] n = 8 -> "8" [] n = 9 -> "9"
Pad2(n) == <<DigitChar((n \div 10) % 10), DigitChar(n % 10)>>
Pad4(n) == Pad2(n \div 100) \o Pad2(n % 100)
Strftime(dt) ==
    Pad4(dt.year) \o <<"-">> \o Pad2(dt.month) \o <<"-">> \o Pad2(dt.day) \o <<"-">>
        \o Pad2(dt.hour) \o <<"-">> \o Pad2(dt.minute) \o <<"-">> \o Pad2(dt.second)

Dt(y, mo, d, h, mi, s) ==
    [year |-> y, month |-> mo, day |-> d, hour |-> h, minute |-> mi, second |-> s]

T0 == Dt(2023, 12, 31, 23, 59, 59)
T1 == Dt(2024, 2, 29, 10, 0, 0)
T2 == Dt(2024, 2, 29, 10, 0, 5)
BadDay == Dt(2023, 2, 29, 10, 0, 0)

DirA == <<"d", "/", "a">>
DirB == <<"d", "/", "b">>
DotJson == <<".", "j", "s", "o", "n">>
DotJSON == <<".", "J", "S", "O", "N">>
DotTxt == <<".", "t", "x", "t">>

File(root, prefix, stamp, ext) == [root |-> root, file |-> prefix \o stamp \o ext]

\* the files a general input directory may hold
FileUniverse ==
    { File(DirA, <<"a", "_">>, Strftime(T1), DotJson),
      File(DirA, <<"b", "_">>, Strftime(T1), DotJson),
      File(DirB, <<"a", "_">>, Strftime(T1), DotJson),
      File(DirB, <<"a", "_">>, Strftime(T0), DotJson),
      File(DirA, <<"z", "_">>, Strftime(T2), DotJSON),
      File(DirA, <<"a", "_">>, Strftime(BadDay), DotJson),
      File(DirA, <<"n", "o", "t", "e", "s">>, <<>>, DotJson),
      File(DirB, <<"a", "_">>, Strftime(T2), DotTxt) }

FullPath(f) == PathJoin(f.root, f.file)

EmptyDir == <<>>

\* directories of at most MaxFiles files of the universe, any small content in each
GeneralDirs ==
    UNION {[fs -> SmallContents] :
              fs \in {x \in SUBSET FileUniverse : Cardinality(x) <= MaxFiles}}

\* three snapshot files in one directory, named in capture order
Snap1 == File(DirA, <<"a", "_">>, Strftime(T0), DotJson)
Snap2 == File(DirA, <<"a", "_">>, Strftime(T1), DotJson)
Snap3 == File(DirA, <<"a", "_">>, Strftime(T2), DotJson)

Repeat(u, n) == [k \in 1..n |-> u]

\* snapshots longer than the lookback window: MaxLead utterances, then padding
\* that no later snapshot holds and that reaches to the window's edge or leaves
\* up to two of the leading utterances inside it, or padding that later snapshots
\* may repeat
LongParts ==
    { lead \o Repeat(U3, n) :
        lead \in SeqsOf(Utterances, MaxLead, MaxLead),
        n \in (OVERLAP_LOOKBACK_PREVIOUS - 2)..OVERLAP_LOOKBACK_PREVIOUS }
    \cup
    { lead \o Repeat(U1, OVERLAP_LOOKBACK_PREVIOUS) :
        lead \in SeqsOf(Utterances, MaxLead, MaxLead) }

FirstContents ==
    ErrorContents \cup {Parts(s) : s \in SeqsOf(Utterances, 0, MaxSnapLen) \cup LongParts}
SecondContents ==
    ErrorContents \cup {Parts(s) : s \in SeqsOf(Utterances, 0, MaxSnapLen)}

\* a directory without a usable snapshot
BarrenDirs == {EmptyDir} \cup {Snap1 :> c : c \in ErrorContents \cup {Parts(<<>>)}}

\* two snapshots with any contents
TwoSnapshotDirs ==
    BarrenDirs \cup
    { (Snap1 :> c1) @@ (Snap2 :> c2) : c1 \in FirstContents, c2 \in SecondContents }

\* the capture scenario: snapshot 2 starts with the run that ends snapshot 1, and
\* snapshot 3, taken after a gap, holds utterances neither of them has
GapContents == ErrorContents \cup {Parts(s) : s \in SeqsOf({U3}, 0, MaxGap)}
ScenarioDirs ==
    BarrenDirs \cup
    { (Snap1 :> Parts(before \o run)) @@ (Snap2 :> Parts(run \o after)) @@ (Snap3 :> c3) :
        before \in SeqsOf(Utterances, 0, MaxPrefix),
        run \in SeqsOf(Utterances, MIN_OVERLAP_LENGTH, MIN_OVERLAP_LENGTH + 2),
        after \in SeqsOf(Utterances, 0, MaxNew),
        c3 \in GapContents }

\* a snapshot captured twice in a row: as the first two files, also when it is
\* longer than the lookback window, or after an earlier snapshot
RepeatDirs ==
    BarrenDirs \cup
    { (Snap1 :> c) @@ (Snap2 :> c) : c \in {Parts(s) : s \in LongParts} }
    \cup
    { (Snap1 :> c1) @@ (Snap2 :> c2) @@ (Snap3 :> c2) :
        c1 \in {Parts(s) : s \in SeqsOf(Utterances, 0, MaxSnapLen)},
        c2 \in {Parts(s) : s \in SeqsOf(Utterances, MIN_OVERLAP_LENGTH, MaxSnapLen)} }

-----------------------------------------------------------------------------
(* Text values *)

\* the characters str.split() and \s treat as whitespace, of those the model uses
Whitespace == {" ", "\t"}

IsSpace(s) == \A k \in 1..Len(s) : s[k] \in Whitespace

\* str.strip()
Strip(s) ==
    LET solid == {k \in 1..Len(s) : s[k] \notin Whitespace}
    IN  IF solid = {} THEN <<>>
        ELSE SubSeq(s, CHOOSE k \in solid : \A j \in solid : k <= j,
                       CHOOSE k \in solid : \A j \in solid : k >= j)

\* str.split() without arguments: the maximal runs of non-whitespace characters
RECURSIVE Split(_)
Split(s) ==
    IF s = <<>> THEN <<>>
    ELSE IF Head(s) \in Whitespace THEN Split(Tail(s))
    ELSE LET stops == {k \in 1..Len(s) : s[k] \in Whitespace}
             stop == IF stops = {} THEN Len(s) + 1
                     ELSE CHOOSE k \in stops : \A j \in stops : k <= j
         IN  <<SubSeq(s, 1, stop - 1)>> \o Split(SubSeq(s, stop, Len(s)))

\* sep.join(words)
RECURSIVE Join(_, _)
Join(sep, words) ==
    IF words = <<>> THEN <<>>
    ELSE IF Len(words) = 1 THEN words[1]
    ELSE words[1] \o sep \o Join(sep, Tail(words))

\* a normalisation that trims the text but keeps its inner whitespace
StripOnly(text) == Strip(text)

\* ' '.join(text.split()), line 118
NormalizeText(text) == Join(<<" ">>, Split(text))

\* the pattern \s*\(.*\)\s*$ matches s from position p to its end
SuffixMatchAt(s, p) ==
    \E q \in p..Len(s) :
        /\ IsSpace(SubSeq(s, p, q - 1))
        /\ s[q] = "("
        /\ \E r \in (q + 1)..Len(s) :
              /\ s[r] = ")"
              /\ IsSpace(SubSeq(s, r + 1, Len(s)))

\* re.sub(r'\s*\(.*\)\s*$', '', speaker), line 122: the leftmost match is replaced,
\* and a match always reaches the end of the string
CutSuffix(speaker) ==
    LET starts == {p \in 1..Len(speaker) : SuffixMatchAt(speaker, p)}
    IN  IF starts = {} THEN speaker
        ELSE SubSeq(speaker, 1, (CHOOSE p \in starts : \A o \in starts : p <= o) - 1)

UnknownSpeaker ==
    <<"U", "n", "k", "n", "o", "w", "n", " ", "S", "p", "e", "a", "k", "e", "r">>

\* lines 122-123
CleanSpeaker(speaker) ==
    LET processed_speaker == Strip(CutSuffix(speaker))
    IN  IF processed_speaker = <<>> THEN UnknownSpeaker ELSE processed_speaker

-----------------------------------------------------------------------------
(* Accessibility trees, as json.load returns them *)

\* A JSON object with the keys the processors read.  value_type is "absent" when
\* the object has no "value" key, "str" for a string, "null" for null and
\* "other" for any other JSON value; children_type is "absent", "list", or "other" for a value that
\* is neither a list nor iterable (null, a number).
Node(role, description, value_type, value, children_type, children) ==
    [role |-> role, description |-> description,
     value_type |-> value_type, value |-> value,
     children_type |-> children_type, children |-> children]

Leaf(role) == Node(role, "", "absent", <<>>, "absent", <<>>)
Text(role, value) == Node(role, "", "str", value, "absent", <<>>)
Box(role, children) == Node(role, "", "absent", <<>>, "list", children)

\* what a function returns or raises
Returned(parts) == [raised |-> FALSE, parts |-> parts]
Raised == [raised |-> TRUE, parts |-> <<>>]

\* the results of the calls on the items of a list, one after the other: the
\* first call that raises ends the loop
InOrder(results) ==
    IF \E k \in DOMAIN results : results[k].raised THEN Raised
    ELSE LET RECURSIVE Concat(_)
             Concat(k) == IF k > Len(results) THEN <<>>
                          ELSE results[k].parts \o Concat(k + 1)
         IN  Returned(Concat(1))

\* lines 34-37
IsLiveCaptions(node) == node.role = "AXGroup" /\ node.description = "Live Captions"

NotFound == [kind |-> "none", node |-> Leaf("")]
SearchRaised == [kind |-> "raised", node |-> Leaf("")]

\* lines 22-55: the first match in document order; iterating a children value
\* that is not iterable raises TypeError
RECURSIVE find_live_captions_group(_)
find_live_captions_group(node) ==
    IF IsLiveCaptions(node) THEN [kind |-> "found", node |-> node]
    ELSE IF node.children_type = "absent" THEN NotFound
    ELSE IF node.children_type # "list" THEN SearchRaised
    ELSE LET found == [k \in 1..Len(node.children) |->
                          find_live_captions_group(node.children[k])]
             ends == {k \in DOMAIN found : found[k].kind # "none"}
         IN  IF ends = {} THEN NotFound
             ELSE found[CHOOSE k \in ends : \A j \in ends : k <= j]

\* lines 90-102: the first AXStaticText value in document order that is not
\* None; an AXStaticText whose value is null returns None to its caller
NoText == [kind |-> "none", value_type |-> "absent", value |-> <<>>]
RECURSIVE find_first_static_text(_)
find_first_static_text(sub_node) ==
    IF sub_node.role = "AXStaticText" /\ sub_node.value_type # "absent"
    THEN IF sub_node.value_type = "null" THEN NoText
         ELSE [kind |-> "value", value_type |-> sub_node.value_type,
               value |-> sub_node.value]
    ELSE IF sub_node.children_type = "absent" THEN NoText
    ELSE IF sub_node.children_type # "list"
    THEN [kind |-> "raised", value_type |-> "absent", value |-> <<>>]
    ELSE LET found == [k \in 1..Len(sub_node.children) |->
                          find_first_static_text(sub_node.children[k])]
             ends == {k \in DOMAIN found : found[k].kind # "none"}
         IN  IF ends = {} THEN NoText
             ELSE found[CHOOSE k \in ends : \A j \in ends : k <= j]

\* len(node.get("children", [])), -1 standing for the TypeError of len()
ChildCount(node) ==
    IF node.children_type = "absent" THEN 0
    ELSE IF node.children_type = "list" THEN Len(node.children) ELSE -1

\* lines 80-87, for a child1 whose children can be counted
is_speaker_group(child1) ==
    /\ child1.role = "AXGroup"
    /\ ChildCount(child1) = 1
    /\ child1.children[1].role = "AXStaticText"
    /\ child1.children[1].value_type # "absent"

\* lines 104-108
is_text_element(child2) ==
    child2.role = "AXStaticText" /\ child2.value_type # "absent"

\* lines 111-127: the matched group yields its pair, or nothing when the text is
\* empty; split() raises on a text that is no string, re.sub on such a speaker
CaptionPair(child1, child2) ==
    LET speaker_text_node == child1.children[1]
        found == find_first_static_text(speaker_text_node)
        speaker_type == IF found.kind = "none" THEN speaker_text_node.value_type
                        ELSE found.value_type
        speaker == IF found.kind = "none" THEN speaker_text_node.value ELSE found.value
    IN  IF child2.value_type # "str" THEN Raised
        ELSE LET text == NormalizeText(child2.value)
             IN  IF text = <<>> THEN Returned(<<>>)
                 ELSE IF speaker_type # "str" THEN Raised
                 ELSE Returned(<< <<CleanSpeaker(speaker), text>> >>)

\* an extraction that goes on below a matched group
RECURSIVE extract_pairs_descending(_)
extract_pairs_descending(node) ==
    IF node.role = "AXGroup" /\ ChildCount(node) = -1 THEN Raised
    ELSE IF /\ node.role = "AXGroup"
            /\ ChildCount(node) = 2
            /\ node.children[1].role = "AXGroup"
            /\ ChildCount(node.children[1]) = -1
    THEN Raised
    ELSE IF /\ node.role = "AXGroup"
            /\ ChildCount(node) = 2
            /\ is_speaker_group(node.children[1])
            /\ is_text_element(node.children[2])
    THEN InOrder(<<CaptionPair(node.children[1], node.children[2])>> \o
                 [k \in 1..Len(node.children) |->
                     extract_pairs_descending(node.children[k])])
    ELSE IF node.children_type = "absent" THEN Returned(<<>>)
    ELSE IF node.children_type # "list" THEN Raised
    ELSE InOrder([k \in 1..Len(node.children) |->
                     extract_pairs_descending(node.children[k])])

\* lines 58-139 for a dict; len() of a children value that is no list raises
RECURSIVE extract_speaker_text_pairs(_)
extract_speaker_text_pairs(node) ==
    IF node.role = "AXGroup" /\ ChildCount(node) = -1 THEN Raised
    ELSE IF /\ node.role = "AXGroup"
            /\ ChildCount(node) = 2
            /\ node.children[1].role = "AXGroup"
            /\ ChildCount(node.children[1]) = -1
    THEN Raised
    ELSE IF /\ node.role = "AXGroup"
            /\ ChildCount(node) = 2
            /\ is_speaker_group(node.children[1])
            /\ is_text_element(node.children[2])
    THEN CaptionPair(node.children[1], node.children[2])
    ELSE IF node.children_type = "absent" THEN Returned(<<>>)
    ELSE IF node.children_type # "list" THEN Raised
    ELSE InOrder([k \in 1..Len(node.children) |->
                     extract_speaker_text_pairs(node.children[k])])

\* an extraction that searches the whole document
extract_whole_document(root_node) == extract_speaker_text_pairs(root_node)

\* lines 142-163: the pairs under the children of the Live Captions group; a
\* children value that is neither a dict nor a list yields nothing
find_transcript_parts_teams_robust(root_node) ==
    LET live_captions_group == find_live_captions_group(root_node)
    IN  IF live_captions_group.kind = "raised" THEN Raised
        ELSE IF live_captions_group.kind = "none" THEN Returned(<<>>)
        ELSE IF live_captions_group.node.children_type # "list" THEN Returned(<<>>)
        ELSE InOrder([k \in 1..Len(live_captions_group.node.children) |->
                         extract_speaker_text_pairs(live_captions_group.node.children[k])])

-----------------------------------------------------------------------------
(* Snapshot trees *)

StaticText(value) == Text("AXStaticText", value)

\* the structure the extractor matches: a group of a speaker group and a text
Caption(label, text) ==
    Box("AXGroup", <<Box("AXGroup", <<StaticText(label)>>), StaticText(text)>>)

LiveCaptions(children) ==
    Node("AXGroup", "Live Captions", "absent", <<>>, "list", children)

CapA == Caption(<<"A">>, <<"h", "i">>)
CapB == Caption(<<"B">>, <<"y", "o">>)
CapC == Caption(<<"C">>, <<"o", "k">>)

\* a caption group whose text value is a number
NumberText ==
    Box("AXGroup", <<Box("AXGroup", <<StaticText(<<"A">>)>>),
                     Node("AXStaticText", "", "other", <<>>, "absent", <<>>)>>)
\* a caption group whose speaker value is null
NullSpeaker ==
    Box("AXGroup", <<Box("AXGroup", <<Node("AXStaticText", "", "null", <<>>, "absent", <<>>)>>),
                     StaticText(<<"h", "i">>)>>)
\* a node whose children value is null
NullChildren == Node("AXList", "", "absent", <<>>, "other", <<>>)
\* caption groups whose speaker label is one level deeper, or has a sibling
DeepLabel ==
    Box("AXGroup", <<Box("AXGroup", <<Box("AXGroup", <<StaticText(<<"A">>)>>)>>),
                     StaticText(<<"h", "i">>)>>)
LabelWithSibling ==
    Box("AXGroup", <<Box("AXGroup", <<StaticText(<<"A">>), Leaf("AXImage")>>),
                     StaticText(<<"h", "i">>)>>)

\* caption groups whose text element has a caption group below it, with a
\* text and with a blank text
NestedCaption ==
    Box("AXGroup", <<Box("AXGroup", <<StaticText(<<"C">>)>>),
                     Node("AXStaticText", "", "str", <<"o", "k">>, "list", <<CapB>>)>>)
BlankNested ==
    Box("AXGroup", <<Box("AXGroup", <<StaticText(<<"C">>)>>),
                     Node("AXStaticText", "", "str", <<" ">>, "list", <<CapB>>)>>)

MalformedBranches == {NumberText, NullSpeaker, NullChildren}
FallbackBranches == {DeepLabel, LabelWithSibling}
NestedBranches == {NestedCaption, BlankNested}
Branches ==
    {CapA, CapB, Box("AXList", <<CapA, CapB>>)} \cup MalformedBranches
        \cup FallbackBranches \cup NestedBranches

Containers == {LiveCaptions(inner) : inner \in SeqsOf(Branches, 0, MaxBranches)}

\* the windows a container can lie in: alone, beside a caption group that is
\* outside it, wrapped, beside a second container, beside a malformed node
WindowsAround(c) ==
    { <<c>>, <<CapC, c>>, <<c, CapC>>, <<Box("AXList", <<c>>)>>,
      <<c, LiveCaptions(<<CapC>>)>>, <<LiveCaptions(<<CapC>>), c>>,
      <<NullChildren, c>>, <<c, NullChildren>> }

\* windows without a Live Captions group, and one whose group has no list of children
OtherWindows ==
    { <<>>, <<CapC>>, <<Box("AXList", <<CapA, CapB>>)>>,
      <<Node("AXGroup", "Live Captions", "absent", <<>>, "other", <<>>)>>,
      <<Node("AXGroup", "Live Captions", "absent", <<>>, "absent", <<>>)>> }

StructureTrees ==
    {Box("AXWindow", w) : w \in OtherWindows \cup UNION {WindowsAround(c) : c \in Containers}}

TextChars == {"a", " ", "\t"}
LabelChars == {"A", " ", "(", ")"}

HelloWorld == <<"H", "e", "l", "l", "o", " ", " ", " ", "w", "o", "r", "l", "d", " ", " ">>
JaneDoeGuest ==
    <<"J", "a", "n", "e", " ", "D", "o", "e", " ", "(", "G", "u", "e", "s", "t", ")">>
AnnNYLeeGuest ==
    <<"A", "n", "n", " ", "(", "N", "Y", ")", " ", "L", "e", "e", " ",
      "(", "G", "u", "e", "s", "t", ")">>

Texts == SeqsOf(TextChars, 0, MaxTextLen) \cup {HelloWorld}
Labels == SeqsOf(LabelChars, 0, MaxLabelLen) \cup {JaneDoeGuest, AnnNYLeeGuest}

\* one caption group under the Live Captions group
Single(label, text) == Box("AXWindow", <<LiveCaptions(<<Caption(label, text)>>)>>)

SnapshotTrees ==
    StructureTrees
    \cup {Single(<<"A">>, text) : text \in Texts}
    \cup {Single(label, <<"h", "i">>) : label \in Labels}

-----------------------------------------------------------------------------
(* The exporter's inputs *)

TargetPid == 501

\* what the App Context and the Serialization Preset ask for, and the pid handed
\* to the loop (0 for a missing one)
Configs ==
    [pid : {0, TargetPid}, needs_window_refind : BOOLEAN,
     window_title_or_fragment : BOOLEAN, target_criteria : BOOLEAN]

\* what the accessibility calls of one cycle give: whether the application
\* element can be created, for every window that matches the title whether it
\* holds the target, whether the application element holds the target, whether
\* one of the calls raises, and whether the serialization gives any data
Screens ==
    [app_element : BOOLEAN, candidate_windows : SeqsOf(BOOLEAN, 0, MaxWindows),
     target_in_app : BOOLEAN, raises : BOOLEAN, serialized_data : BOOLEAN]

\* the readings of the clock: around the turn of a year, on a leap day and with
\* every field below ten
NewYear == Dt(2024, 1, 1, 0, 0, 0)
Morning == Dt(2024, 3, 4, 5, 6, 7)
ClockTimes == {T0, NewYear, T1, T2, Morning}

\* no export loop is running
ExporterIdle ==
    /\ config = [pid |-> 0, needs_window_refind |-> FALSE,
                 window_title_or_fragment |-> FALSE, target_criteria |-> FALSE]
    /\ running = {}
    /\ screen = [app_element |-> FALSE, candidate_windows |-> <<>>,
                 target_in_app |-> FALSE, raises |-> FALSE, serialized_data |-> FALSE]
    /\ now = T0
    /\ cycle = 0
    /\ exports = <<>>

-----------------------------------------------------------------------------
(* process_teams_directory *)

\* the walk of lines 312-320: one (timestamp, full_path) per .json file whose
\* name carries a parsable timestamp
ScannedEntries ==
    { <<get_timestamp_from_filename(f.file), FullPath(f)>> :
        f \in {g \in DOMAIN disk :
                 /\ EndsWith(Lower(g.file), DotJson)
                 /\ get_timestamp_from_filename(g.file) # None} }

\* open(file_path) and json.load and the extraction, for the path of an entry
ReadFile(path) == disk[CHOOSE f \in DOMAIN disk : FullPath(f) = path]

\* None for a value that is otherwise a string
NoneStr == <<"None">>

NoData == Leaf("")

TeamsArgv == <<"process_teams_transcript.py", "d">>

\* a table parser that has not started
NoParse ==
    /\ row = 0
    /\ transcript_parts = <<>>
    /\ current_speaker = NoneStr
    /\ current_timestamp = NoneStr
    /\ current_text_buffer = <<>>

\* nothing loaded, nothing parsed, nothing formatted
ParsersIdle ==
    /\ data = NoData
    /\ formatted_output = <<>>
    /\ NoParse

InitWith(dirs) ==
    /\ argv = TeamsArgv
    /\ ParsersIdle
    /\ input_is_dir \in BOOLEAN
    /\ disk \in (IF input_is_dir THEN dirs ELSE {EmptyDir})
    /\ pc = "start"
    /\ json_files = <<>>
    /\ i = 0
    /\ all_transcript_parts = <<>>
    /\ current_parts = <<>>
    /\ outcome = "none"
    /\ origin = <<>>
    /\ exit_code = -1
    /\ ExporterIdle

Init == InitWith(GeneralDirs)

Exit(code) ==
    /\ pc' = "exited"
    /\ exit_code' = code

\* lines 305-307
InputDirMissing ==
    /\ pc = "start"
    /\ ~input_is_dir
    /\ Exit(1)
    /\ UNCHANGED <<input_is_dir, disk, json_files, i, all_transcript_parts,
                   current_parts, outcome, origin>>
    /\ UNCHANGED <<parser_vars, formatted_output>>
    /\ UNCHANGED export_vars

\* lines 309-324 when no file qualifies
ScanFindsNothing ==
    /\ pc = "start"
    /\ input_is_dir
    /\ ScannedEntries = {}
    /\ Exit(1)
    /\ UNCHANGED <<input_is_dir, disk, json_files, i, all_transcript_parts,
                   current_parts, outcome, origin>>
    /\ UNCHANGED <<parser_vars, formatted_output>>
    /\ UNCHANGED export_vars

\* lines 309-327
ScanAndSort ==
    /\ pc = "start"
    /\ input_is_dir
    /\ ScannedEntries # {}
    /\ json_files' = SortEntries(ScannedEntries)
    /\ pc' = "makedirs"
    /\ UNCHANGED <<input_is_dir, disk, i, all_transcript_parts,
                   current_parts, outcome, origin, exit_code>>
    /\ UNCHANGED <<parser_vars, formatted_output>>
    /\ UNCHANGED export_vars

\* lines 336-340
MakeOutputDir ==
    /\ pc = "makedirs"
    /\ \E ok \in BOOLEAN :
          IF ok THEN pc' = "loop" /\ UNCHANGED exit_code
          ELSE Exit(1)
    /\ UNCHANGED <<input_is_dir, disk, json_files, i, all_transcript_parts,
                   current_parts, outcome, origin>>
    /\ UNCHANGED <<parser_vars, formatted_output>>
    /\ UNCHANGED export_vars

InLoop == pc = "loop" /\ i < Len(json_files)
NextPath == json_files[i + 1][2]

\* a read failure that ends the run instead of skipping the file
AbortOnUnreadable ==
    /\ InLoop
    /\ ReadFile(NextPath).kind \in {"decode_error", "read_error"}
    /\ current_parts' = <<>>
    /\ outcome' = ReadFile(NextPath).kind
    /\ Exit(1)
    /\ UNCHANGED <<input_is_dir, disk, json_files, i, all_transcript_parts, origin>>
    /\ UNCHANGED <<parser_vars, formatted_output>>
    /\ UNCHANGED export_vars

\* lines 356-358 and 367-374: the read raises, the file is skipped
SkipUnreadable ==
    /\ InLoop
    /\ ReadFile(NextPath).kind \in {"decode_error", "read_error"}
    /\ i' = i + 1
    /\ current_parts' = <<>>
    /\ outcome' = ReadFile(NextPath).kind
    /\ UNCHANGED <<input_is_dir, disk, pc, json_files, all_transcript_parts,
                   origin, exit_code>>
    /\ UNCHANGED <<parser_vars, formatted_output>>
    /\ UNCHANGED export_vars

\* lines 361-365: nothing extracted, the file is skipped
SkipNoParts ==
    /\ InLoop
    /\ ReadFile(NextPath).kind = "parts"
    /\ ReadFile(NextPath).parts = <<>>
    /\ i' = i + 1
    /\ current_parts' = <<>>
    /\ outcome' = "no_parts"
    /\ UNCHANGED <<input_is_dir, disk, pc, json_files, all_transcript_parts,
                   origin, exit_code>>
    /\ UNCHANGED <<parser_vars, formatted_output>>
    /\ UNCHANGED export_vars

\* a seed step that keeps only the lookback window of the first snapshot
SeedLookbackWindow ==
    /\ InLoop
    /\ ReadFile(NextPath).kind = "parts"
    /\ ReadFile(NextPath).parts # <<>>
    /\ all_transcript_parts = <<>>
    /\ LET parts == PrevSlice(ReadFile(NextPath).parts, OVERLAP_LOOKBACK_PREVIOUS)
       IN  /\ all_transcript_parts' = Extend(all_transcript_parts, parts)
           /\ origin' = origin \o [k \in 1..Len(parts) |-> i + 1]
           /\ current_parts' = ReadFile(NextPath).parts
    /\ i' = i + 1
    /\ outcome' = "seed"
    /\ UNCHANGED <<input_is_dir, disk, pc, json_files, exit_code>>
    /\ UNCHANGED <<parser_vars, formatted_output>>
    /\ UNCHANGED export_vars

\* lines 376-378: the first file with content
SeedTranscript ==
    /\ InLoop
    /\ ReadFile(NextPath).kind = "parts"
    /\ ReadFile(NextPath).parts # <<>>
    /\ all_transcript_parts = <<>>
    /\ LET parts == ReadFile(NextPath).parts
       IN  /\ all_transcript_parts' = Extend(all_transcript_parts, parts)
           /\ origin' = origin \o [k \in 1..Len(parts) |-> i + 1]
           /\ current_parts' = parts
    /\ i' = i + 1
    /\ outcome' = "seed"
    /\ UNCHANGED <<input_is_dir, disk, pc, json_files, exit_code>>
    /\ UNCHANGED <<parser_vars, formatted_output>>
    /\ UNCHANGED export_vars

\* a stitch step whose start of new content is not fixed by the two sequences
StitchAnywhere ==
    /\ InLoop
    /\ ReadFile(NextPath).kind = "parts"
    /\ ReadFile(NextPath).parts # <<>>
    /\ all_transcript_parts # <<>>
    /\ \E new_content_start_idx \in 0..Len(ReadFile(NextPath).parts) :
          LET parts == ReadFile(NextPath).parts
              new_parts_to_add == SliceFrom(parts, new_content_start_idx)
          IN  /\ all_transcript_parts' = Extend(all_transcript_parts, new_parts_to_add)
              /\ origin' = origin \o [k \in 1..Len(new_parts_to_add) |-> i + 1]
              /\ current_parts' = parts
              /\ outcome' = IF new_content_start_idx = 0 THEN "no_overlap" ELSE "overlap"
    /\ i' = i + 1
    /\ UNCHANGED <<input_is_dir, disk, pc, json_files, exit_code>>
    /\ UNCHANGED <<parser_vars, formatted_output>>
    /\ UNCHANGED export_vars

\* lines 379-395: later files are stitched on after the detected overlap
StitchFile ==
    /\ InLoop
    /\ ReadFile(NextPath).kind = "parts"
    /\ ReadFile(NextPath).parts # <<>>
    /\ all_transcript_parts # <<>>
    /\ LET parts == ReadFile(NextPath).parts
           new_content_start_idx ==
               find_best_overlap_index(all_transcript_parts, parts,
                                       OVERLAP_LOOKBACK_PREVIOUS, MIN_OVERLAP_LENGTH)
           new_parts_to_add ==
               IF new_content_start_idx < Len(parts)
               THEN SliceFrom(parts, new_content_start_idx) ELSE <<>>
       IN  /\ all_transcript_parts' = Extend(all_transcript_parts, new_parts_to_add)
           /\ origin' = origin \o [k \in 1..Len(new_parts_to_add) |-> i + 1]
           /\ current_parts' = parts
           /\ outcome' = IF new_content_start_idx = 0 THEN "no_overlap" ELSE "overlap"
    /\ i' = i + 1
    /\ UNCHANGED <<input_is_dir, disk, pc, json_files, exit_code>>
    /\ UNCHANGED <<parser_vars, formatted_output>>
    /\ UNCHANGED export_vars

\* lines 397-411: nothing collected; the empty file is written, a failure of the
\* write is only printed, and the function returns
WriteEmpty ==
    /\ pc = "loop"
    /\ i = Len(json_files)
    /\ all_transcript_parts = <<>>
    /\ \E write_ok \in BOOLEAN :
          /\ outcome' = IF write_ok THEN "wrote_empty" ELSE "write_failed"
          /\ Exit(0)
    /\ UNCHANGED <<input_is_dir, disk, json_files, i, all_transcript_parts,
                   current_parts, origin>>
    /\ UNCHANGED <<parser_vars, formatted_output>>
    /\ UNCHANGED export_vars

\* lines 413-423: the formatted transcript is written; a failed write exits 1
WriteTranscript ==
    /\ pc = "loop"
    /\ i = Len(json_files)
    /\ all_transcript_parts # <<>>
    /\ \E write_ok \in BOOLEAN :
          /\ outcome' = IF write_ok THEN "wrote_transcript" ELSE "write_failed"
          /\ Exit(IF write_ok THEN 0 ELSE 1)
    /\ UNCHANGED <<input_is_dir, disk, json_files, i, all_transcript_parts,
                   current_parts, origin>>
    /\ UNCHANGED <<parser_vars, formatted_output>>
    /\ UNCHANGED export_vars

Next ==
    \/ InputDirMissing
    \/ ScanFindsNothing
    \/ ScanAndSort
    \/ MakeOutputDir
    \/ SkipUnreadable
    \/ SkipNoParts
    \/ SeedTranscript
    \/ StitchFile
    \/ WriteEmpty
    \/ WriteTranscript

Spec == Init /\ [][Next]_vars

\* the same program over two-snapshot directories and over the capture scenario
InitReconcile == InitWith(TwoSnapshotDirs)
SpecReconcile == InitReconcile /\ [][Next]_vars

InitScenario == InitWith(ScenarioDirs)
SpecScenario == InitScenario /\ [][Next]_vars

\* the same program over directories that hold one snapshot twice
InitRepeat == InitWith(RepeatDirs)
SpecRepeat == InitRepeat /\ [][Next]_vars

-----------------------------------------------------------------------------
(* The extraction of one loaded snapshot, lines 361-374 *)

\* no directory scanned, no file consumed
TeamsIdle ==
    /\ input_is_dir = TRUE
    /\ disk = EmptyDir
    /\ json_files = <<>>
    /\ i = 0
    /\ all_transcript_parts = <<>>
    /\ current_parts = <<>>
    /\ origin = <<>>

InitExtract ==
    /\ argv = TeamsArgv
    /\ TeamsIdle
    /\ data \in SnapshotTrees
    /\ formatted_output = <<>>
    /\ NoParse
    /\ pc = "extract"
    /\ outcome = "none"
    /\ exit_code = -1
    /\ ExporterIdle

\* line 361 returns: the parts of the snapshot, possibly none (lines 363-365)
ExtractParts ==
    /\ pc = "extract"
    /\ ~find_transcript_parts_teams_robust(data).raised
    /\ current_parts' = find_transcript_parts_teams_robust(data).parts
    /\ outcome' = IF current_parts' = <<>> THEN "no_parts" ELSE "parts"
    /\ pc' = "extracted"
    /\ UNCHANGED <<input_is_dir, disk, json_files, i, all_transcript_parts, origin,
                   exit_code, parser_vars, formatted_output>>
    /\ UNCHANGED export_vars

\* line 361 raises: lines 371-374 skip the whole file
ExtractRaises ==
    /\ pc = "extract"
    /\ find_transcript_parts_teams_robust(data).raised
    /\ current_parts' = <<>>
    /\ outcome' = "read_error"
    /\ pc' = "extracted"
    /\ UNCHANGED <<input_is_dir, disk, json_files, i, all_transcript_parts, origin,
                   exit_code, parser_vars, formatted_output>>
    /\ UNCHANGED export_vars

NextExtract == ExtractParts \/ ExtractRaises

SpecExtract == InitExtract /\ [][NextExtract]_vars


-----------------------------------------------------------------------------
(* Properties of the reconciliation *)

IsPrefix(s, t) == Len(s) <= Len(t) /\ SubSeq(t, 1, Len(s)) = s

Range(s) == {s[k] : k \in 1..Len(s)}

\* the last min(n, len(s)) elements of s
LastN(s, n) == SubSeq(s, Len(s) - Min(n, Len(s)) + 1, Len(s))

\* a[p .. p+n-1] and b[q .. q+n-1] (1-based) exist and are equal element by element
CommonAt(a, b, p, q, n) ==
    /\ p + n - 1 <= Len(a)
    /\ q + n - 1 <= Len(b)
    /\ \A k \in 0..(n - 1) : a[p + k] = b[q + k]

HasCommonRun(a, b, n) ==
    \E p \in 1..Len(a) : \E q \in 1..Len(b) : CommonAt(a, b, p, q, n)

\* the length of the longest contiguous run that is a block of both a and b
LongestCommonRun(a, b) ==
    CHOOSE n \in 0..Min(Len(a), Len(b)) :
        /\ n = 0 \/ HasCommonRun(a, b, n)
        /\ \A m \in (n + 1)..Min(Len(a), Len(b)) : ~HasCommonRun(a, b, m)

\* the file the loop reads next, and the step that reads it
NextContent == ReadFile(json_files[i + 1][2])
ReadsFile == pc = "loop" /\ i < Len(json_files) /\ i' = i + 1
ReadsParts == ReadsFile /\ NextContent.kind = "parts" /\ NextContent.parts # <<>>

\* C1: every step leaves the transcript as it was or appends to it: the transcript
\* before the step is a prefix of the transcript after it.
C1_AppendOnly ==
    [][IsPrefix(all_transcript_parts, all_transcript_parts')]_vars

\* an accepted overlap has appended the rest of the second snapshot to the first
C1_Witness ==
    /\ outcome = "overlap"
    /\ i = 2
    /\ Len(all_transcript_parts) > Len(disk[Snap1].parts)
    /\ Len(all_transcript_parts) < Len(disk[Snap1].parts) + Len(disk[Snap2].parts)

\* C2: with a non-empty transcript and non-empty new utterances, when the longest
\* run common to the last 30 transcript elements and the new utterances has
\* length L >= 3, a run of that length sits at new[j .. j+L-1] and exactly
\* new[j+L:] is appended.
C2_AcceptedOverlap ==
    [][ (ReadsParts /\ all_transcript_parts # <<>>) =>
          LET new == NextContent.parts
              tail == LastN(all_transcript_parts, 30)
              L == LongestCommonRun(tail, new)
          IN  L >= 3 =>
                \E j \in 0..(Len(new) - L) :
                    /\ \E p \in 1..Len(tail) : CommonAt(tail, new, p, j + 1, L)
                    /\ all_transcript_parts' =
                           all_transcript_parts \o SubSeq(new, j + L + 1, Len(new)) ]_vars

\* an overlap was accepted against a transcript longer than the lookback window,
\* and part of the new snapshot, but not all of it, was appended
C2_Witness ==
    /\ outcome = "overlap"
    /\ i = 2
    /\ Len(disk[Snap1].parts) > 30
    /\ Len(all_transcript_parts) > Len(disk[Snap1].parts)
    /\ Len(all_transcript_parts) < Len(disk[Snap1].parts) + Len(disk[Snap2].parts)

\* C3: with a non-empty transcript, when the longest run common to its lookback
\* tail and the new utterances is shorter than 3, all new utterances are appended
\* in order.
C3_FailOpen ==
    [][ (ReadsParts /\ all_transcript_parts # <<>>) =>
          LET new == NextContent.parts
              tail == LastN(all_transcript_parts, 30)
          IN  LongestCommonRun(tail, new) < 3 =>
                all_transcript_parts' = all_transcript_parts \o new ]_vars

\* two snapshots that overlap in exactly two utterances were both kept in full
C3_Witness ==
    /\ outcome = "no_overlap"
    /\ i = 2
    /\ disk[Snap1].kind = "parts"
    /\ LongestCommonRun(disk[Snap1].parts, disk[Snap2].parts) = 2
    /\ all_transcript_parts = disk[Snap1].parts \o disk[Snap2].parts

\* C5: while the transcript is empty, a snapshot that yields utterances is
\* appended verbatim: the transcript then equals that snapshot's utterances.
C5_Seed ==
    [][ (ReadsParts /\ all_transcript_parts = <<>>) =>
          all_transcript_parts' = NextContent.parts ]_vars

\* the second file seeded the transcript after the first one gave nothing
C5_Witness ==
    /\ outcome = "seed"
    /\ i = 2
    /\ all_transcript_parts = disk[Snap2].parts
    /\ Len(all_transcript_parts) >= 3

-----------------------------------------------------------------------------
(* The capture scenario: snapshots 1, 2 and 3 of a ScenarioDirs directory *)

S1 == disk[Snap1].parts
S2 == disk[Snap2].parts
S3 == disk[Snap3].parts

\* the number of places at which run occurs as a block of s
Occurrences(run, s) ==
    Cardinality({p \in 1..Len(s) : CommonAt(s, run, p, 1, Len(run))})

\* the last n elements of a are the first n elements of b
BoundaryRun(a, b, n) ==
    /\ n <= Len(a)
    /\ n <= Len(b)
    /\ LastN(a, n) = SubSeq(b, 1, n)

\* both snapshots of the pair have been reconciled, and nothing else
PairReconciled ==
    /\ pc = "loop"
    /\ i = 2
    /\ Snap3 \in DOMAIN disk

\* C4: when a suffix of snapshot 1 of length >= 3 equals a prefix of snapshot 2,
\* the transcript after reconciling snapshot 1 and then snapshot 2 contains that
\* run exactly once.  Stated for the pairs whose exact merge S1 + S2[n:] holds the
\* run once, so that one occurrence is what a correct merge gives.
C4_NoDuplication ==
    PairReconciled =>
        \A n \in 3..Min(Len(S1), Len(S2)) :
            ( /\ BoundaryRun(S1, S2, n)
              /\ Occurrences(LastN(S1, n), S1 \o SubSeq(S2, n + 1, Len(S2))) = 1 )
            => Occurrences(LastN(S1, n), all_transcript_parts) = 1

\* C6: when the first 5 utterances of snapshot 2 equal the last 5 of snapshot 1
\* (and no longer boundary run exists) and snapshot 3 shares no utterance with
\* snapshot 2, the transcript after the three snapshots is S1 + S2[5:] + S3 and the
\* merge of snapshot 3 took the no-overlap branch.
C6_ThreeSnapshots ==
    ( /\ pc = "loop"
      /\ i = 3
      /\ disk[Snap3].kind = "parts"
      /\ S3 # <<>>
      /\ BoundaryRun(S1, S2, 5)
      /\ \A n \in 6..Min(Len(S1), Len(S2)) : ~BoundaryRun(S1, S2, n)
      /\ Range(S3) \cap Range(S2) = {} )
    => ( /\ all_transcript_parts = S1 \o SubSeq(S2, 6, Len(S2)) \o S3
         /\ outcome = "no_overlap" )

-----------------------------------------------------------------------------
(* Properties of the snapshot sequence *)

\* the file of the directory that an entry of json_files names
FileOf(entry) == CHOOSE f \in DOMAIN disk : FullPath(f) = entry[2]

\* the timestamp written in a file name of the universe, read from the 19
\* characters between its two-character prefix and its extension: the day and
\* the second of the day, each as a number that grows with time
NameDay(f) ==
    LET st == SubSeq(f.file, 3, 21)
    IN  (Num4(st, 1) * 13 + Num2(st, 6)) * 32 + Num2(st, 9)
NameSecond(f) ==
    LET st == SubSeq(f.file, 3, 21)
    IN  (Num2(st, 12) * 60 + Num2(st, 15)) * 60 + Num2(st, 18)

Earlier(f, g) ==
    \/ NameDay(f) < NameDay(g)
    \/ NameDay(f) = NameDay(g) /\ NameSecond(f) < NameSecond(g)

\* C7: snapshots are reconciled in ascending order of the timestamps in their file
\* names: json_files never holds a later timestamp before an earlier one, the
\* loop takes its entries one by one in that order, and the transcript changes
\* only by the step that reads the next entry.
C7_Chronological ==
    /\ [](\A m \in 1..Len(json_files) : \A n \in (m + 1)..Len(json_files) :
             ~Earlier(FileOf(json_files[n]), FileOf(json_files[m])))
    /\ [](\A k \in 1..Len(origin) : \A l \in (k + 1)..Len(origin) : origin[k] <= origin[l])
    /\ [][ /\ i' \in {i, i + 1}
           /\ all_transcript_parts' # all_transcript_parts =>
                /\ i' = i + 1
                /\ IsPrefix(all_transcript_parts, all_transcript_parts')
                /\ \A k \in (Len(origin) + 1)..Len(origin') : origin'[k] = i + 1 ]_vars

\* two snapshots were reconciled in time order although their paths sort the
\* other way round
C7_Witness ==
    /\ pc = "exited"
    /\ \E m \in Range(origin) : \E n \in Range(origin) :
          /\ m < n
          /\ Earlier(FileOf(json_files[m]), FileOf(json_files[n]))
          /\ StrLess(json_files[n][2], json_files[m][2])

SameStamp(e1, e2) ==
    ~Earlier(FileOf(e1), FileOf(e2)) /\ ~Earlier(FileOf(e2), FileOf(e1))

\* C8 as stated: entries with an identical timestamp stand in the order of their
\* file names, in whatever directories the files lie: none stands before an entry
\* whose file name sorts first.
C8_TieByFilename ==
    \A m \in 1..Len(json_files) : \A n \in (m + 1)..Len(json_files) :
        SameStamp(json_files[m], json_files[n]) =>
            ~StrLess(FileOf(json_files[n]).file, FileOf(json_files[m]).file)

\* C8 amended: entries with an identical timestamp stand in the order of their
\* full paths, which is the order of their file names when they lie in the same
\* directory.
C8_TieByFullPath ==
    \A m \in 1..Len(json_files) : \A n \in (m + 1)..Len(json_files) :
        SameStamp(json_files[m], json_files[n]) =>
            /\ StrLess(json_files[m][2], json_files[n][2])
            /\ FileOf(json_files[m]).root = FileOf(json_files[n]).root =>
                  StrLess(FileOf(json_files[m]).file, FileOf(json_files[n]).file)

\* two files with one timestamp in different directories, and two in the same
\* directory, have been ordered
C8_Witness ==
    /\ Len(json_files) = 3
    /\ SameStamp(json_files[1], json_files[2])
    /\ SameStamp(json_files[2], json_files[3])
    /\ FileOf(json_files[1]).root = FileOf(json_files[2]).root
    /\ FileOf(json_files[2]).root # FileOf(json_files[3]).root

\* the .json files of the universe whose names carry no timestamp pattern or a
\* pattern that is no date
UnparsableFiles ==
    { File(DirA, <<"a", "_">>, Strftime(BadDay), DotJson),
      File(DirA, <<"n", "o", "t", "e", "s">>, <<>>, DotJson) }

\* C9: a .json file without a parsable timestamp never enters json_files, and no
\* element of the transcript comes from it.
C9_UnparsableExcluded ==
    \A f \in UnparsableFiles \cap DOMAIN disk :
        /\ \A m \in 1..Len(json_files) : json_files[m][2] # FullPath(f)
        /\ \A k \in 1..Len(origin) : json_files[origin[k]][2] # FullPath(f)

\* a run ended with a transcript while the directory held both kinds of
\* unparsable file, each with utterances in it
C9_Witness ==
    /\ pc = "exited"
    /\ all_transcript_parts # <<>>
    /\ UnparsableFiles \subseteq DOMAIN disk
    /\ \A f \in UnparsableFiles : disk[f].kind = "parts" /\ disk[f].parts # <<>>

\* C10: a file that fails to decode, raises while being read or yields no
\* utterances leaves the transcript unchanged, the loop stays in the sequence and
\* moves to the next entry, and the output is written only after every entry has
\* been taken.
C10_FailureIsolation ==
    /\ [][ (pc = "loop" /\ i < Len(json_files)) =>
             /\ pc' = "loop"
             /\ i' = i + 1
             /\ (NextContent.kind # "parts" \/ NextContent.parts = <<>>) =>
                   all_transcript_parts' = all_transcript_parts ]_vars
    /\ [](outcome \in {"wrote_empty", "wrote_transcript", "write_failed"} =>
             i = Len(json_files))

\* after a file that failed to decode and one that raised, a later snapshot was
\* still reconciled
C10_Witness ==
    /\ pc = "exited"
    /\ Len(json_files) = 3
    /\ ReadFile(json_files[1][2]).kind = "decode_error"
    /\ ReadFile(json_files[2][2]).kind = "read_error"
    /\ origin = <<3>>

-----------------------------------------------------------------------------
(* format_combined_transcript *)

\* truth value of a string that may be None
Truthy(x) == x # NoneStr /\ x # <<>>

\* lines 270-278: flush_buffer appends the header and the message of the open block
FlushBuffer(formatted_lines, speaker, text_buffer) ==
    LET full_message == Strip(Join(<<" ">>, text_buffer))
    IN  IF Truthy(speaker) /\ text_buffer # <<>> /\ full_message # <<>>
        THEN formatted_lines \o <<<<"[">> \o speaker \o <<"]">>, full_message \o <<"\n">>>>
        ELSE formatted_lines

\* lines 280-290 with a flush before every utterance
RECURSIVE FormatEach(_, _, _, _, _)
FormatEach(all_parts, k, formatted_lines, speaker, text_buffer) ==
    IF k > Len(all_parts) THEN FlushBuffer(formatted_lines, speaker, text_buffer)
    ELSE FormatEach(all_parts, k + 1, FlushBuffer(formatted_lines, speaker, text_buffer),
                    all_parts[k][1], <<all_parts[k][2]>>)

\* a formatter that starts a block at every utterance
format_block_per_utterance(all_parts) ==
    IF all_parts = <<>> THEN <<>>
    ELSE Join(<<"\n">>, FormatEach(all_parts, 1, <<>>, NoneStr, <<>>))

\* lines 280-290: the loop from utterance k on, then the last flush
RECURSIVE FormatFrom(_, _, _, _, _)
FormatFrom(all_parts, k, formatted_lines, speaker, text_buffer) ==
    IF k > Len(all_parts) THEN FlushBuffer(formatted_lines, speaker, text_buffer)
    ELSE IF all_parts[k][1] = speaker
    THEN FormatFrom(all_parts, k + 1, formatted_lines, speaker,
                    Append(text_buffer, all_parts[k][2]))
    ELSE FormatFrom(all_parts, k + 1, FlushBuffer(formatted_lines, speaker, text_buffer),
                    all_parts[k][1], <<all_parts[k][2]>>)

\* lines 252-292
format_combined_transcript(all_parts) ==
    IF all_parts = <<>> THEN <<>>
    ELSE Join(<<"\n">>, FormatFrom(all_parts, 1, <<>>, NoneStr, <<>>))

\* transcripts of utterances as the extraction emits them
FormatUtterances ==
    { <<<<"A">>, <<"h", "i">>>>, <<<<"A">>, <<"t", "h", "e", "r", "e">>>>,
      <<<<"B">>, <<"y", "o">>>> }

InitFormat ==
    /\ argv = TeamsArgv
    /\ ParsersIdle
    /\ input_is_dir = TRUE
    /\ disk = EmptyDir
    /\ json_files = <<>>
    /\ i = 0
    /\ all_transcript_parts \in SeqsOf(FormatUtterances, 0, MaxFormatLen)
    /\ current_parts = <<>>
    /\ origin = <<>>
    /\ pc = "format"
    /\ outcome = "none"
    /\ exit_code = -1
    /\ ExporterIdle

\* line 414
FormatTranscript ==
    /\ pc = "format"
    /\ formatted_output' = format_combined_transcript(all_transcript_parts)
    /\ pc' = "formatted"
    /\ UNCHANGED <<teams_vars, outcome, exit_code, parser_vars>>
    /\ UNCHANGED export_vars

SpecFormat == InitFormat /\ [][FormatTranscript]_vars

-----------------------------------------------------------------------------
(* parse_zoom_json *)

\* str.count(c)
Count(s, c) == Cardinality({k \in 1..Len(s) : s[k] = c})

\* a table row whose first cell holds the given items
Row(cell_contents) == Box("AXRow", <<Box("AXCell", cell_contents)>>)
TextArea(value) == Text("AXTextArea", value)

Clock1 == <<"0", "0", ":", "0", "1", ":", "0", "2">>
Clock2 == <<"0", "0", ":", "0", "1", ":", "0", "5">>
ShortClock == <<"1", "2", ":", "3", "0">>

\* the rows of the model: speaker markers, timestamped lines, a line with an
\* HH:MM clock time, a continuation line, a line with blank dialogue, an empty row
ZoomRows ==
    { Row(<<Leaf("AXImage"), TextArea(<<"A">>)>>),
      Row(<<Leaf("AXImage"), TextArea(<<" ", "B">>)>>),
      Row(<<TextArea(Clock1), TextArea(<<"h", "i">>)>>),
      Row(<<TextArea(Clock2), TextArea(<<"y", "o", " ">>)>>),
      Row(<<TextArea(ShortClock), TextArea(<<"h", "i">>)>>),
      Row(<<TextArea(<<"o", "k">>)>>),
      Row(<<TextArea(Clock2), TextArea(<<" ">>)>>),
      Leaf("AXRow") }

ZoomTables == {Box("AXTable", rows) : rows \in SeqsOf(ZoomRows, 0, MaxRows)}

\* node.get('children', [])
ChildrenOf(node) == IF node.children_type = "list" THEN node.children ELSE <<>>

\* lines 28-38 for the row the loop takes next
NextRow == ChildrenOf(data)[row + 1]
cell_contents == IF ChildrenOf(NextRow) = <<>> THEN <<>> ELSE ChildrenOf(ChildrenOf(NextRow)[1])
cell_values ==
    LET areas == SelectSeq(cell_contents, LAMBDA item : item.role = "AXTextArea")
    IN  [k \in DOMAIN areas |-> IF areas[k].value_type = "absent" THEN <<>> ELSE areas[k].value]
has_image == \E k \in DOMAIN cell_contents : cell_contents[k].role = "AXImage"

\* ' '.join(current_text_buffer).strip()
Dialogue(text_buffer) == Strip(Join(<<" ">>, text_buffer))

\* the triples after a flush of the open block: an empty dialogue emits nothing
Flushed ==
    IF Dialogue(current_text_buffer) # <<>>
    THEN Append(transcript_parts,
                <<current_speaker, current_timestamp, Dialogue(current_text_buffer)>>)
    ELSE transcript_parts

InZoomLoop == pc = "zoom_rows" /\ row < Len(ChildrenOf(data))

\* lines 28-34, and a row that neither branch of lines 40-67 takes
ZoomSkipRow ==
    /\ InZoomLoop
    /\ \/ cell_contents = <<>>
       \/ ~has_image /\ ~(cell_values # <<>> /\ Truthy(current_speaker))
    /\ row' = row + 1
    /\ UNCHANGED <<teams_vars, pc, outcome, exit_code, argv, data, formatted_output,
                   transcript_parts, zoom_vars>>
    /\ UNCHANGED export_vars

\* lines 40-50: a speaker marker flushes the open block and names the new speaker
ZoomSpeakerRow ==
    /\ InZoomLoop
    /\ cell_contents # <<>>
    /\ has_image
    /\ IF Truthy(current_speaker) /\ current_text_buffer # <<>> /\ Truthy(current_timestamp)
       THEN /\ transcript_parts' = Flushed
            /\ current_text_buffer' = <<>>
            /\ current_timestamp' = NoneStr
       ELSE UNCHANGED <<transcript_parts, current_text_buffer, current_timestamp>>
    /\ current_speaker' = IF cell_values # <<>> THEN Strip(cell_values[1]) ELSE UnknownSpeaker
    /\ row' = row + 1
    /\ UNCHANGED <<teams_vars, pc, outcome, exit_code, argv, data, formatted_output>>
    /\ UNCHANGED export_vars

\* line 54: the row is taken as a timestamped line
IsTimestampRow == Len(cell_values) >= 2 /\ Count(cell_values[1], ":") = 2

\* lines 52-64: a timestamp flushes the open block and starts a new one
ZoomTimestampRow ==
    /\ InZoomLoop
    /\ cell_contents # <<>>
    /\ ~has_image
    /\ cell_values # <<>> /\ Truthy(current_speaker)
    /\ IsTimestampRow
    /\ IF current_text_buffer # <<>> /\ Truthy(current_timestamp)
       THEN /\ transcript_parts' = Flushed
            /\ current_text_buffer' = <<Strip(cell_values[2])>>
       ELSE /\ UNCHANGED transcript_parts
            /\ current_text_buffer' = Append(current_text_buffer, Strip(cell_values[2]))
    /\ current_timestamp' = Strip(cell_values[1])
    /\ row' = row + 1
    /\ UNCHANGED <<teams_vars, pc, outcome, exit_code, argv, data, formatted_output,
                   current_speaker>>
    /\ UNCHANGED export_vars

\* lines 65-67: every fragment of the row continues the open block
ZoomTextRow ==
    /\ InZoomLoop
    /\ cell_contents # <<>>
    /\ ~has_image
    /\ cell_values # <<>> /\ Truthy(current_speaker)
    /\ ~IsTimestampRow
    /\ current_text_buffer' =
           current_text_buffer \o [k \in DOMAIN cell_values |-> Strip(cell_values[k])]
    /\ row' = row + 1
    /\ UNCHANGED <<teams_vars, pc, outcome, exit_code, argv, data, formatted_output,
                   transcript_parts, current_speaker, current_timestamp>>
    /\ UNCHANGED export_vars

\* an end of the table that returns without the last flush
ZoomEndWithoutFlush ==
    /\ pc = "zoom_rows"
    /\ row = Len(ChildrenOf(data))
    /\ pc' = "zoom_parsed"
    /\ UNCHANGED <<teams_vars, outcome, exit_code, parser_vars, formatted_output>>
    /\ UNCHANGED export_vars

\* lines 69-75: the last flush, and the return
ZoomEndOfTable ==
    /\ pc = "zoom_rows"
    /\ row = Len(ChildrenOf(data))
    /\ transcript_parts' =
           IF /\ Truthy(current_speaker) /\ Truthy(current_timestamp)
              /\ current_text_buffer # <<>>
           THEN Flushed ELSE transcript_parts
    /\ pc' = "zoom_parsed"
    /\ UNCHANGED <<teams_vars, outcome, exit_code, argv, data, formatted_output, row,
                   zoom_vars>>
    /\ UNCHANGED export_vars

NextZoom ==
    \/ ZoomSkipRow
    \/ ZoomSpeakerRow
    \/ ZoomTimestampRow
    \/ ZoomTextRow
    \/ ZoomEndOfTable

\* parse_zoom_json called on a loaded table
InitZoom ==
    /\ argv = <<"process_zoom_transcript.py", "f">>
    /\ TeamsIdle
    /\ data \in ZoomTables
    /\ formatted_output = <<>>
    /\ NoParse
    /\ pc = "zoom_rows"
    /\ outcome = "none"
    /\ exit_code = -1
    /\ ExporterIdle

SpecZoom == InitZoom /\ [][NextZoom]_vars

-----------------------------------------------------------------------------
(* parse_webex_json *)

\* lines 14-36: the first AXTable in document order, an empty node when none
RECURSIVE find_webex_table(_)
find_webex_table(node) ==
    IF node.role = "AXTable" THEN node
    ELSE LET found == [k \in DOMAIN ChildrenOf(node) |->
                          find_webex_table(ChildrenOf(node)[k])]
             hits == {k \in DOMAIN found : found[k] # NoData}
         IN  IF hits = {} THEN NoData ELSE found[CHOOSE k \in hits : \A j \in hits : k <= j]

\* lines 54-59: the rows of the table, none when there is no table
WebexRows == ChildrenOf(find_webex_table(data))

\* line 79: the value is taken as a timestamp
LooksLikeTimestamp(value) == Count(value, ":") \in {1, 2}

\* value of the "value" key, '' when absent
ValueOf(node) == IF node.value_type = "absent" THEN <<>> ELSE node.value

\* the last element of a list of values, None for an empty list
LastOrNone(values) == IF values = <<>> THEN NoneStr ELSE values[Len(values)]

\* lines 68-88: speaker, timestamp and dialogue of a row's first cell; a later
\* child of the cell overwrites what an earlier one set
RowParts(cell_children) ==
    LET statics == SelectSeq(cell_children, LAMBDA c : c.role = "AXStaticText")
        areas == SelectSeq(cell_children,
                     LAMBDA c : /\ c.role = "AXScrollArea"
                                /\ \E k \in DOMAIN ChildrenOf(c) :
                                       ChildrenOf(c)[k].role = "AXTextArea")
        FirstTextArea(c) ==
            LET at == {k \in DOMAIN ChildrenOf(c) : ChildrenOf(c)[k].role = "AXTextArea"}
            IN  ChildrenOf(c)[CHOOSE k \in at : \A j \in at : k <= j]
        times == SelectSeq(statics, LAMBDA c : LooksLikeTimestamp(ValueOf(c)))
        names == SelectSeq(statics, LAMBDA c : ~LooksLikeTimestamp(ValueOf(c)))
    IN  [speaker |-> LastOrNone([k \in DOMAIN names |-> Strip(ValueOf(names[k]))]),
         timestamp |-> LastOrNone([k \in DOMAIN times |-> Strip(ValueOf(times[k]))]),
         dialogue |-> LastOrNone([k \in DOMAIN areas |->
                                     Strip(ValueOf(FirstTextArea(areas[k])))])]

\* a row is emitted when any of its three parts was found
RowHasAnyPart(parts) ==
    Truthy(parts.speaker) \/ Truthy(parts.timestamp) \/ Truthy(parts.dialogue)

\* line 91
RowComplete(parts) ==
    Truthy(parts.speaker) /\ Truthy(parts.timestamp) /\ Truthy(parts.dialogue)

\* lines 61-92: one row of the table
WebexRow ==
    /\ pc = "webex_rows"
    /\ row < Len(WebexRows)
    /\ LET this == WebexRows[row + 1]
           cells == ChildrenOf(this)
           parts == RowParts(ChildrenOf(cells[1]))
       IN  IF this.role # "AXRow" \/ cells = <<>> THEN UNCHANGED transcript_parts
           ELSE IF cells[1].role # "AXCell" THEN UNCHANGED transcript_parts
           ELSE IF RowComplete(parts)
           THEN transcript_parts' =
                    Append(transcript_parts, <<parts.speaker, parts.timestamp, parts.dialogue>>)
           ELSE UNCHANGED transcript_parts
    /\ row' = row + 1
    /\ UNCHANGED <<teams_vars, pc, outcome, exit_code, argv, data, formatted_output,
                   zoom_vars>>
    /\ UNCHANGED export_vars

\* line 98, and line 57 when there is no table
WebexEndOfTable ==
    /\ pc = "webex_rows"
    /\ row = Len(WebexRows)
    /\ pc' = "webex_parsed"
    /\ UNCHANGED <<teams_vars, outcome, exit_code, parser_vars, formatted_output>>
    /\ UNCHANGED export_vars

NextWebex == WebexRow \/ WebexEndOfTable

ScrollArea(value) == Box("AXScrollArea", <<TextArea(value)>>)

\* rows with all three parts, rows that lack one, and a node that is no AXRow
FullRowA == Row(<<StaticText(<<"A">>), StaticText(ShortClock), ScrollArea(<<"h", "i">>)>>)
FullRowB == Row(<<StaticText(Clock1), StaticText(<<" ", "B">>), ScrollArea(<<"y", "o", " ">>)>>)
PartialRows ==
    { Row(<<StaticText(ShortClock), ScrollArea(<<"h", "i">>)>>),
      Row(<<StaticText(<<"A">>), ScrollArea(<<"h", "i">>)>>),
      Row(<<StaticText(<<"A">>), StaticText(ShortClock)>>),
      Row(<<StaticText(<<"A">>), StaticText(ShortClock), ScrollArea(<<" ">>)>>),
      Box("AXGroup", FullRowA.children) }

\* windows with one table, with a wrapped table before a second one, with none
WebexWindows ==
    {Box("AXWindow", <<>>)} \cup
    UNION { { Box("AXWindow", <<Box("AXTable", rows)>>),
              Box("AXWindow", <<Box("AXGroup", <<Box("AXTable", rows)>>),
                                Box("AXTable", <<FullRowB>>)>>) } :
            rows \in SeqsOf({FullRowA, FullRowB} \cup PartialRows, 0, MaxRows) }

\* parse_webex_json called on a loaded window
InitWebex ==
    /\ argv = <<"process_webex_transcript.py", "f">>
    /\ TeamsIdle
    /\ data \in WebexWindows
    /\ formatted_output = <<>>
    /\ NoParse
    /\ pc = "webex_rows"
    /\ outcome = "none"
    /\ exit_code = -1
    /\ ExporterIdle

SpecWebex == InitWebex /\ [][NextWebex]_vars

-----------------------------------------------------------------------------
(* The three scripts from the command line to the exit status *)

MaxScriptRows == 2     \* rows of the table in the input file of a script run

TeamsScript == "process_teams_transcript.py"
ZoomScript == "process_zoom_transcript.py"
WebexScript == "process_webex_transcript.py"

\* the input file of the Zoom and Webex scripts, and what reading it gives:
\* json.load raising JSONDecodeError, open raising, or the loaded tree
InputFile == File(<<"d">>, <<"f">>, <<>>, DotJson)
FileContent(kind, tree) == [kind |-> kind, parts |-> <<>>, tree |-> tree]
InputFileContents(trees) ==
    {FileContent("decode_error", NoData), FileContent("read_error", NoData)}
        \cup {FileContent("json", tree) : tree \in trees}

\* os.path.isfile(input_file_path)
IsFile == InputFile \in DOMAIN disk

\* format_transcript (the Webex script holds the same function, lines 101-116):
\* "\n".join of the two lines of every triple, the second ending in a newline
RECURSIVE format_transcript(_)
format_transcript(parts) ==
    IF parts = <<>> THEN <<>>
    ELSE LET part == parts[1]
             lines == <<"[">> \o part[1] \o <<"]", " ">> \o part[2] \o <<"\n">>
                          \o part[3] \o <<"\n">>
         IN  IF Len(parts) = 1 THEN lines
             ELSE lines \o <<"\n">> \o format_transcript(Tail(parts))

\* process_teams_transcript.py lines 427-435
TeamsMain ==
    /\ pc = "main"
    /\ argv[1] = TeamsScript
    /\ IF Len(argv) # 2 THEN outcome' = "usage" /\ Exit(1)
       ELSE pc' = "start" /\ UNCHANGED <<outcome, exit_code>>
    /\ UNCHANGED <<teams_vars, parser_vars, formatted_output>>
    /\ UNCHANGED export_vars

\* process_zoom_transcript.py lines 161-167
ZoomMain ==
    /\ pc = "main"
    /\ argv[1] = ZoomScript
    /\ IF Len(argv) # 2 THEN outcome' = "usage" /\ Exit(1)
       ELSE pc' = "zoom_file" /\ UNCHANGED <<outcome, exit_code>>
    /\ UNCHANGED <<teams_vars, parser_vars, formatted_output>>
    /\ UNCHANGED export_vars

\* process_zoom_file lines 105-136: the input file is checked, the output
\* directory made and the file loaded; each failure exits with status 1
ZoomLoadFile ==
    /\ pc = "zoom_file"
    /\ IF ~IsFile
       THEN outcome' = "input_missing" /\ Exit(1) /\ UNCHANGED data
       ELSE \E makedirs_ok \in BOOLEAN :
               IF ~makedirs_ok
               THEN outcome' = "makedirs_failed" /\ Exit(1) /\ UNCHANGED data
               ELSE IF disk[InputFile].kind # "json"
               THEN outcome' = disk[InputFile].kind /\ Exit(1) /\ UNCHANGED data
               ELSE /\ data' = disk[InputFile].tree
                    /\ pc' = "zoom_rows"
                    /\ UNCHANGED <<outcome, exit_code>>
    /\ UNCHANGED <<teams_vars, argv, row, transcript_parts, zoom_vars, formatted_output>>
    /\ UNCHANGED export_vars

\* process_zoom_file lines 137-157: the empty file is written outside any try,
\* so a failure of that write ends the interpreter with status 1
ZoomWriteFile ==
    /\ pc = "zoom_parsed"
    /\ formatted_output' =
           IF transcript_parts = <<>> THEN <<>> ELSE format_transcript(transcript_parts)
    /\ \E write_ok \in BOOLEAN :
          IF write_ok
          THEN /\ outcome' = IF transcript_parts = <<>> THEN "wrote_empty"
                             ELSE "wrote_transcript"
               /\ Exit(0)
          ELSE outcome' = "write_failed" /\ Exit(1)
    /\ UNCHANGED <<teams_vars, parser_vars>>
    /\ UNCHANGED export_vars

\* process_webex_transcript.py lines 189-196
WebexMain ==
    /\ pc = "main"
    /\ argv[1] = WebexScript
    /\ IF Len(argv) # 2 THEN outcome' = "usage" /\ Exit(1)
       ELSE pc' = "webex_file" /\ UNCHANGED <<outcome, exit_code>>
    /\ UNCHANGED <<teams_vars, parser_vars, formatted_output>>
    /\ UNCHANGED export_vars

\* process_webex_file lines 129-160
WebexLoadFile ==
    /\ pc = "webex_file"
    /\ IF ~IsFile
       THEN outcome' = "input_missing" /\ Exit(1) /\ UNCHANGED data
       ELSE \E makedirs_ok \in BOOLEAN :
               IF ~makedirs_ok
               THEN outcome' = "makedirs_failed" /\ Exit(1) /\ UNCHANGED data
               ELSE IF disk[InputFile].kind # "json"
               THEN outcome' = disk[InputFile].kind /\ Exit(1) /\ UNCHANGED data
               ELSE /\ data' = disk[InputFile].tree
                    /\ pc' = "webex_rows"
                    /\ UNCHANGED <<outcome, exit_code>>
    /\ UNCHANGED <<teams_vars, argv, row, transcript_parts, zoom_vars, formatted_output>>
    /\ UNCHANGED export_vars

\* process_webex_file lines 161-185: both writes are inside a try that exits
\* with status 1 on IOError
WebexWriteFile ==
    /\ pc = "webex_parsed"
    /\ formatted_output' =
           IF transcript_parts = <<>> THEN <<>> ELSE format_transcript(transcript_parts)
    /\ \E write_ok \in BOOLEAN :
          IF write_ok
          THEN /\ outcome' = IF transcript_parts = <<>> THEN "wrote_empty"
                             ELSE "wrote_transcript"
               /\ Exit(0)
          ELSE outcome' = "write_failed" /\ Exit(1)
    /\ UNCHANGED <<teams_vars, parser_vars>>
    /\ UNCHANGED export_vars

NextScripts ==
    \/ TeamsMain
    \/ Next
    \/ ZoomMain
    \/ ZoomLoadFile
    \/ NextZoom
    \/ ZoomWriteFile
    \/ WebexMain
    \/ WebexLoadFile
    \/ NextWebex
    \/ WebexWriteFile

\* command lines with and without the input path, and with one argument too many
CommandLines ==
    UNION {{<<script>>, <<script, "p">>, <<script, "p", "q">>} :
              script \in {TeamsScript, ZoomScript, WebexScript}}

\* input directories of up to two snapshots
ScriptDirs ==
    BarrenDirs \cup {Snap1 :> Parts(<<U1>>)}
        \cup {(Snap1 :> c1) @@ (Snap2 :> c2) : c1 \in SmallContents, c2 \in SmallContents}

\* what the file system holds at the input path of the script
InputsOf(script) ==
    CASE script = TeamsScript -> ScriptDirs
      [] script = ZoomScript ->
           {EmptyDir} \cup
           {InputFile :> c :
              c \in InputFileContents({Box("AXTable", rows) :
                                         rows \in SeqsOf(ZoomRows, 0, MaxScriptRows)})}
      [] script = WebexScript ->
           {EmptyDir} \cup
           {InputFile :> c :
              c \in InputFileContents(
                      {Box("AXWindow", <<>>)} \cup
                      {Box("AXWindow", <<Box("AXTable", rows)>>) :
                         rows \in SeqsOf({FullRowA, FullRowB} \cup PartialRows,
                                         0, MaxScriptRows)})}

InitScripts ==
    /\ argv \in CommandLines
    /\ input_is_dir \in (IF argv[1] = TeamsScript THEN BOOLEAN ELSE {FALSE})
    /\ disk \in (IF argv[1] = TeamsScript /\ ~input_is_dir THEN {EmptyDir}
                 ELSE InputsOf(argv[1]))
    /\ pc = "main"
    /\ json_files = <<>>
    /\ i = 0
    /\ all_transcript_parts = <<>>
    /\ current_parts = <<>>
    /\ origin = <<>>
    /\ data = NoData
    /\ formatted_output = <<>>
    /\ NoParse
    /\ outcome = "none"
    /\ exit_code = -1
    /\ ExporterIdle

SpecScripts == InitScripts /\ [][NextScripts]_vars

-----------------------------------------------------------------------------
(* accessibility_export.py: pid_exists, export_to_json, run_periodic_export *)

\* lines 583-595: a pid that is not positive, or one os.kill(pid, 0) raises
\* OSError for, does not exist
pid_exists(pid) == IF pid <= 0 THEN FALSE ELSE pid \in running

\* the elements a cycle can settle on; a target found under the application
\* element has window 0
NoElement == [kind |-> "none", window |-> 0]
AppElement == [kind |-> "app", window |-> 0]
Window(k) == [kind |-> "window", window |-> k]
Target(k) == [kind |-> "target", window |-> k]

\* a search that falls back to the container when the target is not in it
element_or_container(cfg, scr) ==
    LET candidate_windows == scr.candidate_windows
        holding == {k \in 1..Len(candidate_windows) : candidate_windows[k]}
    IN  IF cfg.needs_window_refind
        THEN IF ~cfg.window_title_or_fragment \/ candidate_windows = <<>> THEN NoElement
             ELSE IF cfg.target_criteria /\ holding # {}
                  THEN Target(CHOOSE k \in holding : \A m \in holding : k <= m)
                  ELSE Window(1)
        ELSE IF cfg.target_criteria /\ scr.target_in_app THEN Target(0)
             ELSE AppElement

\* lines 1033-1114: the value of element_to_export when step 5 is reached
element_to_export(cfg, scr) ==
    LET candidate_windows == scr.candidate_windows
        holding == {k \in 1..Len(candidate_windows) : candidate_windows[k]}
    IN  IF cfg.needs_window_refind
        THEN IF ~cfg.window_title_or_fragment THEN NoElement
             ELSE IF candidate_windows = <<>> THEN NoElement
             ELSE IF Len(candidate_windows) = 1
                  THEN IF cfg.target_criteria
                       THEN IF candidate_windows[1] THEN Target(1) ELSE NoElement
                       ELSE Window(1)
                  ELSE IF cfg.target_criteria
                       THEN IF holding = {} THEN NoElement
                            ELSE Target(CHOOSE k \in holding : \A m \in holding : k <= m)
                       ELSE Window(1)
        ELSE IF cfg.target_criteria
             THEN IF scr.target_in_app THEN Target(0) ELSE NoElement
             ELSE AppElement

Export_ == <<"e", "x", "p", "o", "r", "t", "_">>
base_export_dir == DirA

\* a file name whose hour is on the 12-hour clock
export_filename_12h(t) ==
    Export_ \o Strftime([t EXCEPT !.hour = ((t.hour + 11) % 12) + 1]) \o DotJson

\* lines 650-651: the name of the file for an export at t
export_filename(t) == Export_ \o Strftime(t) \o DotJson

\* line 652
export_filepath(t) == File(base_export_dir, export_filename(t), <<>>, <<>>)

InExportLoop == pc \in {"cycle_start", "sleep"}

\* lines 993-995
CannotRun ==
    /\ pc = "run_periodic_export"
    /\ config.pid = 0
    /\ pc' = "returned"
    /\ UNCHANGED <<teams_vars, outcome, exit_code, parser_vars, formatted_output>>
    /\ UNCHANGED export_vars

\* lines 997-1012
EnterLoop ==
    /\ pc = "run_periodic_export"
    /\ config.pid # 0
    /\ pc' = "cycle_start"
    /\ UNCHANGED <<teams_vars, outcome, exit_code, parser_vars, formatted_output>>
    /\ UNCHANGED export_vars

\* lines 1014-1017
PidGone ==
    /\ pc = "cycle_start"
    /\ ~pid_exists(config.pid)
    /\ pc' = "loop_exited"
    /\ UNCHANGED <<teams_vars, outcome, exit_code, parser_vars, formatted_output>>
    /\ UNCHANGED export_vars

CycleStarts ==
    /\ pc = "cycle_start"
    /\ pid_exists(config.pid)
    /\ cycle < MaxCycles

\* lines 1123-1127: a call inside the try raises
CycleRaises ==
    /\ CycleStarts
    /\ screen.raises
    /\ pc' = "sleep"
    /\ UNCHANGED <<teams_vars, outcome, exit_code, parser_vars, formatted_output>>
    /\ UNCHANGED export_vars

\* lines 1026-1030
NoAppElement ==
    /\ CycleStarts
    /\ ~screen.raises
    /\ ~screen.app_element
    /\ pc' = "sleep"
    /\ UNCHANGED <<teams_vars, outcome, exit_code, parser_vars, formatted_output>>
    /\ UNCHANGED export_vars

\* lines 1033-1121 when no element was settled on
SkipExport ==
    /\ CycleStarts
    /\ ~screen.raises
    /\ screen.app_element
    /\ element_to_export(config, screen) = NoElement
    /\ pc' = "sleep"
    /\ UNCHANGED <<teams_vars, outcome, exit_code, parser_vars, formatted_output>>
    /\ UNCHANGED export_vars

\* lines 1117-1119 and export_to_json, lines 601-664: nothing is written when
\* the serialization gives no data (lines 645-647) or the file cannot be
\* opened; a json.dump that fails leaves a file that is not valid JSON
ExportElement ==
    /\ CycleStarts
    /\ ~screen.raises
    /\ screen.app_element
    /\ element_to_export(config, screen) # NoElement
    /\ IF ~screen.serialized_data
       THEN UNCHANGED <<disk, now, exports>>
       ELSE \E t \in ClockTimes, written \in {"saved", "open_failed", "dump_failed"} :
               /\ ~DtLess(t, now)
               /\ now' = t
               /\ IF written = "open_failed"
                  THEN UNCHANGED <<disk, exports>>
                  ELSE /\ disk' = (export_filepath(t) :>
                                     (IF written = "saved" THEN Parts(<<U1>>)
                                      ELSE DecodeError)) @@ disk
                       /\ exports' = Append(exports,
                                            [cycle |-> cycle, time |-> t,
                                             filename |-> export_filename(t)])
    /\ pc' = "sleep"
    /\ UNCHANGED <<input_is_dir, json_files, i, all_transcript_parts, current_parts,
                   origin, outcome, exit_code, parser_vars, formatted_output>>
    /\ UNCHANGED <<config, running, screen, cycle>>

\* lines 1129-1131 (and line 1029): the interval is a whole number of seconds,
\* at least one; the screen and the process table change meanwhile
Sleep ==
    /\ pc = "sleep"
    /\ \E t \in ClockTimes : DtLess(now, t) /\ now' = t
    /\ screen' \in Screens
    /\ running' \in SUBSET running
    /\ cycle' = cycle + 1
    /\ pc' = "cycle_start"
    /\ UNCHANGED <<teams_vars, outcome, exit_code, parser_vars, formatted_output>>
    /\ UNCHANGED <<config, exports>>

\* main, lines 1419-1423: Ctrl+C raises KeyboardInterrupt in the loop, which no
\* except clause of run_periodic_export catches
Interrupt ==
    /\ InExportLoop
    /\ pc' = "interrupted"
    /\ UNCHANGED <<teams_vars, outcome, exit_code, parser_vars, formatted_output>>
    /\ UNCHANGED export_vars

NextExport ==
    \/ CannotRun
    \/ EnterLoop
    \/ PidGone
    \/ CycleRaises
    \/ NoAppElement
    \/ SkipExport
    \/ ExportElement
    \/ Sleep
    \/ Interrupt

\* run_periodic_export called by main, line 1420
InitExport ==
    /\ argv = <<"accessibility_export.py">>
    /\ TeamsIdle
    /\ ParsersIdle
    /\ pc = "run_periodic_export"
    /\ outcome = "none"
    /\ exit_code = -1
    /\ config \in Configs
    /\ running \in SUBSET {TargetPid}
    /\ screen \in Screens
    /\ now \in ClockTimes
    /\ cycle = 0
    /\ exports = <<>>

SpecExport == InitExport /\ [][NextExport]_vars

-----------------------------------------------------------------------------
(* Extraction from one snapshot tree *)

\* the nodes of a tree in document order
RECURSIVE PreOrder(_)
PreOrder(node) ==
    LET RECURSIVE Below(_)
        Below(k) == IF node.children_type # "list" \/ k > Len(node.children) THEN <<>>
                    ELSE PreOrder(node.children[k]) \o Below(k + 1)
    IN  <<node>> \o Below(1)

Flatten(seqs) ==
    LET RECURSIVE From(_)
        From(k) == IF k > Len(seqs) THEN <<>> ELSE seqs[k] \o From(k + 1)
    IN  From(1)

HasContainer == \E k \in DOMAIN PreOrder(data) : IsLiveCaptions(PreOrder(data)[k])

\* the first Live Captions group of the snapshot in document order
FirstContainer ==
    LET nodes == PreOrder(data)
        at == {k \in DOMAIN nodes : IsLiveCaptions(nodes[k])}
    IN  nodes[CHOOSE k \in at : \A j \in at : k <= j]

\* the subtrees directly under the first Live Captions group
BranchesOf(container) ==
    IF container.children_type = "list" THEN container.children ELSE <<>>

\* the node has the shape of a caption: a group of a group and a static text
TwoChildGroup(g) ==
    /\ g.role = "AXGroup"
    /\ g.children_type = "list"
    /\ Len(g.children) = 2
    /\ g.children[1].role = "AXGroup"
    /\ g.children[2].role = "AXStaticText"
    /\ g.children[2].value_type = "str"

\* the caption group g yields the utterance u
Yields(g, u) ==
    /\ TwoChildGroup(g)
    /\ g.children[1].children_type = "list"
    /\ Len(g.children[1].children) = 1
    /\ g.children[1].children[1].role = "AXStaticText"
    /\ g.children[1].children[1].value_type = "str"
    /\ u = <<CleanSpeaker(g.children[1].children[1].value),
             NormalizeText(g.children[2].value)>>

\* C11: when reading one subtree under the Live Captions group raises, the
\* utterances of its sibling subtrees are still extracted: the snapshot's parts
\* are those of the subtrees that can be read, in order, and the malformed
\* subtree alone contributes nothing.
C11_PerNodeFailure ==
    (pc = "extracted" /\ HasContainer) =>
        LET branches == BranchesOf(FirstContainer)
            read == [k \in DOMAIN branches |-> extract_speaker_text_pairs(branches[k])]
        IN  (\E k \in DOMAIN read : read[k].raised) =>
                current_parts = Flatten([k \in DOMAIN read |-> read[k].parts])

\* C12: every utterance extracted from a snapshot comes from a caption group inside
\* the first Live Captions group in document order, and a snapshot without a
\* Live Captions group yields no utterances.
C12_ContainerRestriction ==
    pc = "extracted" =>
        /\ (~HasContainer => current_parts = <<>>)
        /\ HasContainer =>
              \A u \in Range(current_parts) :
                  \E k \in 2..Len(PreOrder(FirstContainer)) :
                      Yields(PreOrder(FirstContainer)[k], u)

\* a snapshot with a caption group before its Live Captions group, and with
\* utterances extracted from inside the group
C12_Witness ==
    /\ pc = "extracted"
    /\ HasContainer
    /\ Len(data.children) = 2
    /\ data.children[1] = CapC
    /\ current_parts # <<>>
    /\ <<<<"C">>, <<"o", "k">>>> \notin Range(current_parts)

\* C13: a two-child group under the Live Captions group whose second child is a
\* static text and whose first child group does not hold exactly one static
\* text still yields an utterance, its speaker being the first static-text value
\* in document order under the first child.
C13_SpeakerFallback ==
    (pc = "extracted" /\ outcome # "read_error" /\ HasContainer) =>
        \A k \in DOMAIN BranchesOf(FirstContainer) :
            LET g == BranchesOf(FirstContainer)[k]
                label == find_first_static_text(g.children[1])
            IN  ( /\ TwoChildGroup(g)
                  /\ ~is_speaker_group(g.children[1])
                  /\ label.kind = "value" /\ label.value_type = "str"
                  /\ NormalizeText(g.children[2].value) # <<>> ) =>
                    <<CleanSpeaker(label.value), NormalizeText(g.children[2].value)>>
                        \in Range(current_parts)

\* the characters of s that are not whitespace, in order
Solid(s) == SelectSeq(s, LAMBDA c : c \notin Whitespace)

Normalized(text) ==
    /\ text # <<>>
    /\ text[1] \notin Whitespace
    /\ text[Len(text)] \notin Whitespace
    /\ \A k \in 1..(Len(text) - 1) :
          ~(text[k] \in Whitespace /\ text[k + 1] \in Whitespace)

\* the text of the one caption group of a single-caption snapshot
SingleLabel == data.children[1].children[1].children[1].children[1].value
SingleText == data.children[1].children[1].children[2].value
SingleCaption ==
    /\ Len(data.children) = 1
    /\ IsLiveCaptions(data.children[1])
    /\ Len(BranchesOf(data.children[1])) = 1
    /\ TwoChildGroup(data.children[1].children[1])
    /\ is_speaker_group(data.children[1].children[1].children[1])
    /\ data = Single(SingleLabel, SingleText)

HelloWorldNormalized == <<"H", "e", "l", "l", "o", " ", "w", "o", "r", "l", "d">>

\* C14: the text of every extracted utterance is non-empty, has no whitespace at
\* either end and no two whitespace characters in a row, and holds the
\* non-whitespace characters of the source text; a caption whose text is empty
\* after normalisation yields nothing, and "Hello   world  " gives "Hello world".
C14_TextNormalized ==
    pc = "extracted" =>
        /\ \A u \in Range(current_parts) : Normalized(u[2])
        /\ SingleCaption =>
              /\ (Solid(SingleText) = <<>> => current_parts = <<>>)
              /\ (Solid(SingleText) # <<>> =>
                    /\ Len(current_parts) = 1
                    /\ Solid(current_parts[1][2]) = Solid(SingleText))
              /\ (SingleText = HelloWorld => current_parts[1][2] = HelloWorldNormalized)

\* a caption whose text has whitespace at both ends and a run of whitespace
\* inside was extracted
C14_Witness ==
    /\ pc = "extracted"
    /\ SingleCaption
    /\ SingleText = HelloWorld
    /\ Len(current_parts) = 1

\* the label ends with one parenthetical suffix, which starts at position p
\* (with the whitespace before it) and holds no parenthesis inside
FinalSuffixAt(label, p) ==
    \E q \in p..Len(label), r \in 1..Len(label) :
        /\ q < r
        /\ IsSpace(SubSeq(label, p, q - 1))
        /\ (p > 1 => label[p - 1] \notin Whitespace)
        /\ label[q] = "(" /\ label[r] = ")"
        /\ \A k \in (q + 1)..(r - 1) : label[k] \notin {"(", ")"}
        /\ IsSpace(SubSeq(label, r + 1, Len(label)))

\* the label without its final parenthetical suffix
WithoutFinalSuffix(label) ==
    IF \E p \in 1..Len(label) : FinalSuffixAt(label, p)
    THEN SubSeq(label, 1, (CHOOSE p \in 1..Len(label) : FinalSuffixAt(label, p)) - 1)
    ELSE label

\* the label starts with a name and its parentheses pair up without nesting
WellFormedLabel(label) ==
    LET parens == SelectSeq(label, LAMBDA c : c \in {"(", ")"})
    IN  /\ label # <<>>
        /\ label[1] \notin Whitespace \cup {"(", ")"}
        /\ Len(parens) % 2 = 0
        /\ \A k \in DOMAIN parens : parens[k] = (IF k % 2 = 1 THEN "(" ELSE ")")

\* C15: the speaker of an utterance extracted from a well-formed label is the
\* label without its final parenthetical suffix and without whitespace at its
\* ends, and nothing else of the label is removed: a label with an earlier
\* parenthesis loses only the final suffix.
C15_SpeakerSuffix ==
    ( /\ pc = "extracted"
      /\ SingleCaption
      /\ Len(current_parts) = 1
      /\ WellFormedLabel(SingleLabel) ) =>
        current_parts[1][1] = Strip(WithoutFinalSuffix(SingleLabel))

-----------------------------------------------------------------------------
(* Formatting *)

\* the positions where a maximal run of one speaker starts
RunStarts(parts) == {k \in 1..Len(parts) : k = 1 \/ parts[k][1] # parts[k - 1][1]}

\* the last position of the run that starts at k
RunEnd(parts, k) ==
    CHOOSE e \in k..Len(parts) :
        /\ \A j \in k..e : parts[j][1] = parts[k][1]
        /\ (e = Len(parts) \/ parts[e + 1][1] # parts[k][1])

\* "[speaker]", a newline, the texts of the run with single spaces between, a newline
Block(parts, k) ==
    <<"[">> \o parts[k][1] \o <<"]", "\n">>
    \o Join(<<" ">>, [j \in 1..(RunEnd(parts, k) - k + 1) |-> parts[k + j - 1][2]])
    \o <<"\n">>

\* the blocks of the runs in transcript order, a blank line between two blocks
RECURSIVE BlocksFrom(_, _)
BlocksFrom(parts, k) ==
    IF k > Len(parts) THEN <<>>
    ELSE Block(parts, k)
         \o (IF RunEnd(parts, k) < Len(parts) THEN <<"\n">> ELSE <<>>)
         \o BlocksFrom(parts, RunEnd(parts, k) + 1)

CoalescingExample ==
    << <<<<"A">>, <<"h", "i">>>>, <<<<"A">>, <<"t", "h", "e", "r", "e">>>>,
       <<<<"B">>, <<"y", "o">>>> >>
CoalescingExampleText ==
    <<"[", "A", "]", "\n", "h", "i", " ", "t", "h", "e", "r", "e", "\n", "\n",
      "[", "B", "]", "\n", "y", "o", "\n">>

\* C16: the formatted transcript is one block per maximal run of utterances of
\* one speaker, in transcript order: "[speaker]", a newline, the run's texts
\* joined by single spaces, a newline; a blank line separates two blocks, and
\* [(A,hi),(A,there),(B,yo)] gives "[A]\nhi there\n" then "[B]\nyo\n".
C16_Coalescing ==
    pc = "formatted" =>
        /\ formatted_output = BlocksFrom(all_transcript_parts, 1)
        /\ (all_transcript_parts = CoalescingExample =>
               formatted_output = CoalescingExampleText)

\* a transcript with a run of two utterances of one speaker and a speaker
\* change was formatted
C16_Witness ==
    /\ pc = "formatted"
    /\ all_transcript_parts = CoalescingExample
    /\ formatted_output # <<>>

-----------------------------------------------------------------------------
(* The Zoom table parser *)

\* a (speaker, timestamp, dialogue) triple is buffered
Buffered ==
    /\ Truthy(current_speaker)
    /\ Truthy(current_timestamp)
    /\ Dialogue(current_text_buffer) # <<>>
OpenTriple == <<current_speaker, current_timestamp, Dialogue(current_text_buffer)>>

\* the parser is at a speaker marker, at a row it takes as a new timestamp, or
\* at the end of the table
AtMarker == InZoomLoop /\ cell_contents # <<>> /\ has_image
AtTimestamp ==
    /\ InZoomLoop /\ cell_contents # <<>> /\ ~has_image
    /\ Truthy(current_speaker) /\ IsTimestampRow
AtEnd == pc = "zoom_rows" /\ row = Len(ChildrenOf(data))

ClockShape(value) ==
    LET t == Strip(value)
    IN  /\ Len(t) \in {5, 8}
        /\ \A k \in 1..Len(t) : IF k \in {3, 6} THEN t[k] = ":" ELSE t[k] \in Digits

\* C18: at a row without a speaker marker whose first fragment is a clock time
\* HH:MM or HH:MM:SS, that fragment becomes the current timestamp and the
\* remaining fragments start a new dialogue buffer for the current speaker; the
\* clock time is not added to the dialogue.
C18_TimestampRecognition ==
    [][ ( /\ InZoomLoop /\ cell_contents # <<>> /\ ~has_image
          /\ Truthy(current_speaker)
          /\ Len(cell_values) >= 2
          /\ ClockShape(cell_values[1]) ) =>
            /\ current_timestamp' = Strip(cell_values[1])
            /\ current_text_buffer' =
                   [k \in 1..(Len(cell_values) - 1) |-> Strip(cell_values[k + 1])] ]_vars

-----------------------------------------------------------------------------
(* The Webex table parser *)

\* the rows of the first AXTable of the window in document order
FirstTableRows ==
    LET nodes == PreOrder(data)
        at == {k \in DOMAIN nodes : nodes[k].role = "AXTable"}
    IN  IF at = {} THEN <<>>
        ELSE ChildrenOf(nodes[CHOOSE k \in at : \A j \in at : k <= j])

\* the items of the first cell of an AXRow, none for any other node
FirstCell(r) ==
    IF r.role = "AXRow" /\ ChildrenOf(r) # <<>> /\ ChildrenOf(r)[1].role = "AXCell"
    THEN Range(ChildrenOf(ChildrenOf(r)[1])) ELSE {}

\* what the first cell supplies: names are static texts without a colon, times
\* static texts of clock-time shape, messages the text areas of scroll areas
NamesIn(r) ==
    {Strip(c.value) : c \in {d \in FirstCell(r) :
                               d.role = "AXStaticText" /\ Count(d.value, ":") = 0}}
TimesIn(r) ==
    {Strip(c.value) : c \in {d \in FirstCell(r) :
                               d.role = "AXStaticText" /\ ClockShape(d.value)}}
MessagesIn(r) ==
    {Strip(a.value) : a \in UNION {Range(ChildrenOf(c)) :
                                     c \in {d \in FirstCell(r) : d.role = "AXScrollArea"}}}

\* the triples the row gives: one when all three parts are there and non-empty
TriplesOf(r) ==
    LET triples == {<<n, t, m>> : n \in NamesIn(r) \ {<<>>}, t \in TimesIn(r) \ {<<>>},
                                   m \in MessagesIn(r) \ {<<>>}}
    IN  IF triples = {} THEN <<>> ELSE <<CHOOSE t \in triples : TRUE>>

\* C19: the triples emitted are, in row order, one for each AXRow of the first
\* AXTable whose first cell supplies a non-empty speaker, timestamp and
\* dialogue; a row that lacks one of the three emits nothing and leaves the
\* triples of the rows before and after it as they are.
C19_RowIndependence ==
    /\ pc = "webex_rows" =>
          transcript_parts = Flatten([k \in 1..row |-> TriplesOf(FirstTableRows[k])])
    /\ pc = "webex_parsed" =>
          transcript_parts =
              Flatten([k \in DOMAIN FirstTableRows |-> TriplesOf(FirstTableRows[k])])

\* a table of a complete row, a row without a timestamp and a complete row was
\* parsed to the two triples of the complete rows
C19_Witness ==
    /\ pc = "webex_parsed"
    /\ Len(FirstTableRows) = 3
    /\ TriplesOf(FirstTableRows[2]) = <<>>
    /\ transcript_parts =
           << <<<<"A">>, ShortClock, <<"h", "i">>>>, <<<<"B">>, Clock1, <<"y", "o">>>> >>

-----------------------------------------------------------------------------
(* The exit status of the scripts *)

\* the command line lacks the input path (or has more than the one argument)
ArgumentMissing == Len(argv) # 2

\* the input directory or file is not there, or the input file cannot be read
InputMissingOrUnreadable ==
    IF argv[1] = TeamsScript THEN ~input_is_dir
    ELSE ~IsFile \/ disk[InputFile].kind # "json"

\* the output directory could not be made or the output file not written
OutputWriteFailed ==
    \/ outcome \in {"write_failed", "makedirs_failed"}
    \/ argv[1] = TeamsScript /\ pc = "exited" /\ json_files # <<>> /\ i = 0
          /\ outcome = "none"

\* C20: a script exits with status 1 exactly when the input path argument is
\* missing, the input directory or file is missing or unreadable, or writing the
\* output fails; every other run, also one that finds no transcript content or
\* no usable snapshot, exits with status 0.
C20_ExitStatus ==
    pc = "exited" =>
        /\ exit_code \in {0, 1}
        /\ exit_code = 1 <=>
              (ArgumentMissing \/ InputMissingOrUnreadable \/ OutputWriteFailed)

-----------------------------------------------------------------------------
(* Write failures of the Teams processor *)

\* C21: whenever the write of the output file fails, of the transcript or of
\* the empty file, the Teams processor ends with a non-zero exit status; it
\* never returns normally after a failed write.
C21_FatalWriteFailure ==
    (pc = "exited" /\ outcome = "write_failed") => exit_code # 0

-----------------------------------------------------------------------------
(* Running the reconciliation again *)

\* the transcript of a run from an empty transcript over the first k snapshots
\* of the ordered sequence
RECURSIVE RunFromEmpty(_)
RunFromEmpty(k) ==
    IF k = 0 THEN <<>>
    ELSE LET before == RunFromEmpty(k - 1)
             content == ReadFile(json_files[k][2])
             idx == find_best_overlap_index(before, content.parts,
                                            OVERLAP_LOOKBACK_PREVIOUS, MIN_OVERLAP_LENGTH)
         IN  IF content.kind # "parts" \/ content.parts = <<>> THEN before
             ELSE IF before = <<>> THEN content.parts
             ELSE before \o SliceFrom(content.parts, Min(idx, Len(content.parts)))

-----------------------------------------------------------------------------
(* What a reconciliation step keeps of the snapshot *)

\* C23: after a reconciliation step in which overlap was accepted, every
\* utterance of the reconciled snapshot occurs in the transcript, also the
\* utterances that stand before the matched run in the snapshot.
C23_NoSilentDrop ==
    [][ (ReadsParts /\ outcome' = "overlap") =>
           \A k \in 1..Len(NextContent.parts) :
              NextContent.parts[k] \in Range(all_transcript_parts') ]_vars

-----------------------------------------------------------------------------
(* Where the dialogue of a Zoom triple comes from *)

\* the items of the first cell of row k of the table, and its text fragments
ItemsOfRow(k) ==
    LET cells == ChildrenOf(ChildrenOf(data)[k])
    IN  IF cells = <<>> THEN <<>> ELSE ChildrenOf(cells[1])
FragmentsOfRow(k) ==
    LET areas == SelectSeq(ItemsOfRow(k), LAMBDA item : item.role = "AXTextArea")
    IN  [j \in DOMAIN areas |-> Strip(ValueOf(areas[j]))]
MarkerRow(k) == \E j \in DOMAIN ItemsOfRow(k) : ItemsOfRow(k)[j].role = "AXImage"
\* row k carries a timestamp for the parser: no marker, a first fragment with
\* two colons and a second fragment
StampRow(k) ==
    /\ ~MarkerRow(k)
    /\ Len(FragmentsOfRow(k)) >= 2
    /\ Count(FragmentsOfRow(k)[1], ":") = 2

\* the fragments of rows from..to that belong to the block opened by the
\* timestamp row from: its second fragment and all fragments of the later rows
RECURSIVE BlockFragments(_, _)
BlockFragments(from, to) ==
    IF from > to THEN <<>>
    ELSE IF StampRow(from) THEN <<FragmentsOfRow(from)[2]>> \o BlockFragments(from + 1, to)
    ELSE FragmentsOfRow(from) \o BlockFragments(from + 1, to)

\* C24: the dialogue of every emitted triple is made only of the fragments of
\* rows after the marker of the triple's speaker and from the row that set the
\* triple's timestamp on; text buffered under an earlier speaker or before any
\* timestamp is in no later triple.
C24_SpeakerAttribution ==
    [][ (pc = "zoom_rows" /\ transcript_parts' # transcript_parts) =>
          LET triple == transcript_parts'[Len(transcript_parts')]
          IN  \E m \in 1..row : \E t \in (m + 1)..row :
                 /\ MarkerRow(m)
                 /\ \A k \in (m + 1)..row : ~MarkerRow(k)
                 /\ StampRow(t)
                 /\ \A k \in (t + 1)..row : ~StampRow(k)
                 /\ triple[2] = FragmentsOfRow(t)[1]
                 /\ triple[3] = Dialogue(BlockFragments(t, row)) ]_vars

-----------------------------------------------------------------------------
(* Reconciling a snapshot twice *)

\* the step reconciles again the snapshot that the step before reconciled, as
\* seed or with an accepted overlap
ReconcilesAgain ==
    /\ ReadsParts
    /\ outcome \in {"seed", "overlap"}
    /\ NextContent.parts = current_parts
    /\ Len(current_parts) >= MIN_OVERLAP_LENGTH

\* C25: reconciling a snapshot of at least min_overlap_len utterances a second
\* time, right after it was reconciled as seed or by an accepted overlap,
\* appends nothing: the transcript stays as it was after the first time.
C25_ReReconcileNoOp ==
    [][ ReconcilesAgain => all_transcript_parts' = all_transcript_parts ]_vars

-----------------------------------------------------------------------------
(* The lookback window *)

\* C26: what a reconciliation step appends is fixed by the new utterances and
\* the last 30 elements of the transcript: it is the suffix that reconciling
\* with those 30 elements alone gives, so two transcripts with the same last 30
\* elements get the same suffix; and when no run of the minimal length is common
\* to the last 30 elements and the snapshot, the whole snapshot is appended,
\* whatever older elements match.
C26_BoundedLookback ==
    [][ (ReadsParts /\ all_transcript_parts # <<>>) =>
          LET tail == LastN(all_transcript_parts, OVERLAP_LOOKBACK_PREVIOUS)
              parts == NextContent.parts
              idx == find_best_overlap_index(tail, parts, OVERLAP_LOOKBACK_PREVIOUS,
                                             MIN_OVERLAP_LENGTH)
          IN  /\ all_transcript_parts' = all_transcript_parts \o SliceFrom(parts, idx)
              /\ ~HasCommonRun(tail, parts, MIN_OVERLAP_LENGTH) =>
                    all_transcript_parts' = all_transcript_parts \o parts ]_vars

\* the second snapshot shares a run of the minimal length with the first, but
\* only with elements older than its last 30, and was appended whole
C26_Witness ==
    /\ pc = "loop"
    /\ i = 2
    /\ Len(S1) > OVERLAP_LOOKBACK_PREVIOUS
    /\ HasCommonRun(S1, S2, MIN_OVERLAP_LENGTH)
    /\ ~HasCommonRun(LastN(S1, OVERLAP_LOOKBACK_PREVIOUS), S2, MIN_OVERLAP_LENGTH)
    /\ outcome = "no_overlap"
    /\ all_transcript_parts = S1 \o S2

-----------------------------------------------------------------------------
(* Several longest runs *)

\* where the common runs of length n start in a and b (1-based)
RunsAt(a, b, n) ==
    {pq \in (1..Len(a)) \X (1..Len(b)) : CommonAt(a, b, pq[1], pq[2], n)}

\* of the longest common runs, the one that starts earliest in a and, among
\* those, earliest in b
EarliestRun(a, b) ==
    LET runs == RunsAt(a, b, LongestCommonRun(a, b))
    IN  CHOOSE pq \in runs :
           \A other \in runs :
              \/ pq[1] < other[1]
              \/ pq[1] = other[1] /\ pq[2] <= other[2]

\* C27: when several common contiguous runs have the maximal length, the new
\* content is placed after the run that starts earliest in the tail and, among
\* those, earliest in the new utterances.
C27_TieBreak ==
    [][ (ReadsParts /\ outcome' = "overlap") =>
          LET tail == LastN(all_transcript_parts, OVERLAP_LOOKBACK_PREVIOUS)
              parts == NextContent.parts
              longest == LongestCommonRun(tail, parts)
              run == EarliestRun(tail, parts)
          IN  all_transcript_parts' =
                  all_transcript_parts \o SliceFrom(parts, run[2] - 1 + longest) ]_vars

\* an overlap was accepted where the longest run occurs at two places of the
\* second snapshot, and the new content was placed after the earlier one
C27_Witness ==
    /\ pc = "loop"
    /\ i = 2
    /\ outcome = "overlap"
    /\ LET runs == RunsAt(S1, S2, LongestCommonRun(S1, S2))
       IN  /\ \E r1 \in runs : \E r2 \in runs : r1[1] = r2[1] /\ r1[2] < r2[2]
           /\ all_transcript_parts =
                  S1 \o SliceFrom(S2, EarliestRun(S1, S2)[2] - 1 + LongestCommonRun(S1, S2))
           /\ Len(all_transcript_parts) > Len(S1)
    /\ Len(S1) <= OVERLAP_LOOKBACK_PREVIOUS

-----------------------------------------------------------------------------
(* Matched caption groups *)

\* the node matches the speaker/text pattern: a group of a group that holds one
\* static text with a value, and a static text with a value
MatchesPattern(g) ==
    /\ g.role = "AXGroup"
    /\ Len(ChildrenOf(g)) = 2
    /\ g.children[1].role = "AXGroup"
    /\ Len(ChildrenOf(g.children[1])) = 1
    /\ g.children[1].children[1].role = "AXStaticText"
    /\ g.children[1].children[1].value_type # "absent"
    /\ g.children[2].role = "AXStaticText"
    /\ g.children[2].value_type # "absent"

\* the matching nodes at or below a node that lie under no other matching
\* node, in document order
RECURSIVE OutermostMatches(_)
OutermostMatches(node) ==
    IF MatchesPattern(node) THEN <<node>>
    ELSE Flatten([k \in DOMAIN ChildrenOf(node) |-> OutermostMatches(ChildrenOf(node)[k])])

\* the utterance of a matching node, none when its text is blank
UtteranceOf(g) ==
    IF NormalizeText(g.children[2].value) = <<>> THEN <<>>
    ELSE << <<CleanSpeaker(g.children[1].children[1].value),
              NormalizeText(g.children[2].value)>> >>

\* C28: a node that matches the speaker/text pattern inside the caption
\* container gives at most one utterance and nothing is taken from below it;
\* the utterances of a snapshot are those of its matching nodes in document
\* (depth-first pre-order) order.
C28_MatchedGroupIsLeaf ==
    (pc = "extracted" /\ HasContainer /\ outcome # "read_error") =>
        LET matches == Flatten([k \in DOMAIN BranchesOf(FirstContainer) |->
                                   OutermostMatches(BranchesOf(FirstContainer)[k])])
        IN  current_parts = Flatten([k \in DOMAIN matches |-> UtteranceOf(matches[k])])

\* a snapshot whose first caption group holds a second caption group below its
\* text gave the utterance of the outer group and that of the next sibling
C28_Witness ==
    /\ pc = "extracted"
    /\ data = Box("AXWindow", <<LiveCaptions(<<NestedCaption, CapA>>)>>)
    /\ current_parts = << <<<<"C">>, <<"o", "k">>>>, <<<<"A">>, <<"h", "i">>>> >>

-----------------------------------------------------------------------------
(* The exporter's file names and the sequencer *)

\* the (timestamp, path) the sequencer's scan makes of the k-th export
ScannedExport(k) ==
    <<exports[k].time, PathJoin(base_export_dir, exports[k].filename)>>

\* C29: the name of every file export_to_json has written for an export at
\* time t is parsed back by get_timestamp_from_filename to exactly t, and the
\* sequencer's sorted scan of the export directory lists the exported files
\* in the order of their capture.
C29_FilenameRoundTrip ==
    /\ \A k \in 1..Len(exports) :
          get_timestamp_from_filename(exports[k].filename) = exports[k].time
    /\ SortEntries(ScannedEntries) = [k \in 1..Len(exports) |-> ScannedExport(k)]

\* the loop wrote one file in the last second of a year and one in the first
\* second of the next, and ended when the process was gone
C29_Witness ==
    /\ pc = "loop_exited"
    /\ Len(exports) = 2
    /\ exports[1].time = T0
    /\ exports[2].time = NewYear
    /\ DOMAIN disk = {export_filepath(T0), export_filepath(NewYear)}

-----------------------------------------------------------------------------
(* The periodic export loop *)

\* what the current cycle does not find
AppNotFound == ~screen.app_element
WindowNotFound == config.needs_window_refind /\ screen.candidate_windows = <<>>
TargetNotFound ==
    /\ config.target_criteria
    /\ IF config.needs_window_refind
       THEN \A k \in 1..Len(screen.candidate_windows) : ~screen.candidate_windows[k]
       ELSE ~screen.target_in_app

\* a step of a cycle that finds no element to export, or in which a call raises
FailedCycleStep ==
    /\ pc = "cycle_start"
    /\ pc' # pc
    /\ pid_exists(config.pid)
    /\ AppNotFound \/ WindowNotFound \/ TargetNotFound \/ screen.raises

LeavesLoop == InExportLoop /\ ~InExportLoop'

FoundPidGone == pc = "cycle_start" /\ ~pid_exists(config.pid) /\ pc' = "loop_exited"

NoExport == exports' = exports /\ disk' = disk

\* the wait is followed by the start of the next cycle, later on the clock
NextCycle == pc' = "cycle_start" /\ cycle' = cycle + 1 /\ DtLess(now, now') /\ NoExport

\* files are written by the step of a cycle only, one at most, and no two
\* written files are of the same cycle
AtMostOneExport ==
    /\ exports' # exports =>
          /\ pc = "cycle_start" /\ pc' = "sleep"
          /\ \E e \in [cycle : {cycle}, time : ClockTimes,
                       filename : {export_filename(t) : t \in ClockTimes}] :
                exports' = Append(exports, e)
    /\ disk' # disk => exports' # exports
    /\ \A k, l \in 1..Len(exports) : k < l => exports[k].cycle < exports[l].cycle

\* The loop is left only when the pid is found not to exist at the start of a
\* cycle; a cycle that does not find the application element, the window or the
\* target, or in which an exception is raised, exports nothing and is followed,
\* after the wait, by the next cycle; a cycle exports at most once.
C30_LeftOnlyWhenPidGone ==
    [][ /\ LeavesLoop => FoundPidGone
        /\ FailedCycleStep => (NoExport /\ pc' = "sleep")
        /\ (pc = "sleep" /\ pc' # pc) => NextCycle
        /\ AtMostOneExport ]_vars

\* C30: run_periodic_export leaves its loop only when the target pid is found
\* not to exist at the start of a cycle, or when a KeyboardInterrupt is raised
\* in it (Ctrl+C, which main catches); unless it is so interrupted, a cycle in
\* which the application element, the window or the target element is not
\* found, or in which an exception is raised, performs no export and the loop
\* goes on to the next cycle after waiting the interval; each cycle performs
\* at most one export.
C30_LeftWhenPidGoneOrInterrupted ==
    [][ /\ LeavesLoop => (FoundPidGone \/ pc' = "interrupted")
        /\ FailedCycleStep => (NoExport /\ pc' \in {"sleep", "interrupted"})
        /\ (pc = "sleep" /\ pc' # pc) => (NextCycle \/ (pc' = "interrupted" /\ NoExport))
        /\ AtMostOneExport ]_vars

\* the first cycle wrote a file, the second, after the wait, found the
\* application but no window and wrote nothing, and Ctrl+C ended the loop
\* while the process was still there
C30_Witness ==
    /\ pc = "interrupted"
    /\ cycle = 1
    /\ pid_exists(config.pid)
    /\ ~screen.raises /\ ~AppNotFound /\ WindowNotFound
    /\ Len(exports) = 1
    /\ exports[1].cycle = 0
    /\ DOMAIN disk = {export_filepath(exports[1].time)}

====
